---- MODULE Spec2Model ----
(***************************************************************************)
(* krisp-obsidian-sync: the fuzzy pre-consolidation and the artifact       *)
(* loaders of normalize.go, the sync step of sync.go with the merge and    *)
(* application of the mappings, the sync state file of state.go, runRepair *)
(* of repair.go and the worker pool of runSummarize.                       *)
(*                                                                         *)
(* A Go string is a sequence of one-character strings, so that splitting,  *)
(* trimming, lower-casing and byte-wise comparison are computed and not    *)
(* assumed.  A Go map is a function whose DOMAIN is the set of keys.       *)
(***************************************************************************)
EXTENDS Integers, Sequences, FiniteSets, TLC

VARIABLES
    pc,            \* position of the step being run
    tags,          \* fuzzyPreProcess: the input []tagInfo
    idx,           \* fuzzyPreProcess: index of the next input tag (1-based)
    groups,        \* fuzzyPreProcess: map[string]*tagGroup
    consolidated,  \* fuzzyPreProcess: the returned []tagInfo
    mappings,      \* fuzzyPreProcess: the returned map[string][]string
    premapFile,    \* the content of normalize-premappings.json
    resultFile,    \* the content of normalize-result.json
    normalizeResult, \* what loadNormalizeResult returned: [err, Mappings]
    premappings,   \* what loadNormalizePremappings returned: [err, Mappings]
    tagMappings,   \* runSyncInternal: the lookup old tag -> canonical tag
    storedTags,    \* SummaryData.Tags of the item being written
    writtenTags,   \* the tag list handed to the summary template
    opts,          \* runSyncInternal: the flags of the run
    cache,         \* the cached meetings and summaries
    syncState,     \* SyncState in memory (mem) and as last saved (file)
    vault,         \* the files of the Obsidian vault
    run,           \* runSyncInternal: toSync, the days left, the current day
    summaryFiles,  \* runNormalizePrompt: the *-summary.json files of the cache
    fileIdx,       \* runNormalizePrompt: index of the next summary file (1-based)
    tagCounts,     \* runNormalizePrompt: map[string]int of the raw tags
    args,          \* arguments of the function being called
    ret,           \* what the function returned
    disk,          \* the sync state file and its .new temp file
    semaphore,     \* runSummarize: the slots taken of the semaphore channel
    workers,       \* runSummarize: the goroutines started, by what they do
    results        \* runSummarize: the results in the channel and those received

fuzzyVars == <<tags, idx, groups, consolidated, mappings>>

fileVars == <<premapFile, resultFile>>

loadVars == <<normalizeResult, premappings, tagMappings>>

applyVars == <<storedTags, writtenTags>>

syncVars == <<opts, cache, syncState, vault, run>>

extractVars == <<summaryFiles, fileIdx, tagCounts>>

callVars == <<args, ret>>

diskVars == <<disk>>

poolVars == <<semaphore, workers, results>>

vars == <<pc, fuzzyVars, fileVars, loadVars, applyVars, syncVars, extractVars, callVars,
          diskVars, poolVars>>

-----------------------------------------------------------------------------
(* Bounds of the model *)

\* longest input list handed to fuzzyPreProcess
MaxTags == 4

\* occurrence counts a raw tag may carry
Counts == {1, 2}

-----------------------------------------------------------------------------
(* Go strings *)

\* byte values of the characters the model uses (ASCII)
Ascii ==
    (" " :> 32) @@ ("," :> 44) @@ ("-" :> 45) @@ ("A" :> 65) @@
    ("a" :> 97) @@ ("b" :> 98) @@ ("c" :> 99) @@ ("d" :> 100) @@ ("e" :> 101) @@
    ("r" :> 114) @@ ("s" :> 115) @@ ("t" :> 116) @@
    ("M" :> 77) @@ ("P" :> 80) @@ ("g" :> 103) @@ ("i" :> 105) @@ ("l" :> 108) @@
    ("m" :> 109) @@ ("n" :> 110) @@ ("o" :> 111) @@ ("p" :> 112) @@ ("u" :> 117) @@
    ("y" :> 121) @@ ("T" :> 84)

Alphabet == DOMAIN Ascii

\* unicode.ToLower on one ASCII character
ToLowerChar(c) ==
    IF Ascii[c] >= 65 /\ Ascii[c] <= 90
    THEN CHOOSE d \in Alphabet : Ascii[d] = Ascii[c] + 32
    ELSE c

\* strings.ToLower
ToLower(s) == [i \in 1..Len(s) |-> ToLowerChar(s[i])]

\* strings.ReplaceAll(s, "-", "")
RemoveHyphens(s) == SelectSeq(s, LAMBDA c : c # "-")

\* strings.HasPrefix / strings.HasSuffix
HasPrefix(s, p) == Len(p) <= Len(s) /\ SubSeq(s, 1, Len(p)) = p

HasSuffix(s, x) ==
    Len(x) <= Len(s) /\ SubSeq(s, Len(s) - Len(x) + 1, Len(s)) = x

\* strings.TrimPrefix / strings.TrimSuffix
TrimPrefix(s, p) == IF HasPrefix(s, p) THEN SubSeq(s, Len(p) + 1, Len(s)) ELSE s

TrimSuffix(s, x) == IF HasSuffix(s, x) THEN SubSeq(s, 1, Len(s) - Len(x)) ELSE s

\* Go's < on strings: byte-wise lexicographic order
RECURSIVE StrLess(_, _)
StrLess(a, b) ==
    IF b = <<>> THEN FALSE
    ELSE IF a = <<>> THEN TRUE
    ELSE IF Ascii[Head(a)] # Ascii[Head(b)] THEN Ascii[Head(a)] < Ascii[Head(b)]
    ELSE StrLess(Tail(a), Tail(b))

\* the elements of a sequence
Range(s) == {s[i] : i \in 1..Len(s)}

-----------------------------------------------------------------------------
(* The matching rules of fuzzyPreProcess *)

abs(n) == IF n < 0 THEN -n ELSE n

maxInt(a, b) == IF a > b THEN a ELSE b

Min3(a, b, c) ==
    IF a <= b /\ a <= c THEN a ELSE IF b <= c THEN b ELSE c

\* one row of the edit-distance table, filled from the left: the distances
\* of the prefix of s that ends in c to every prefix of t, from the row prev
\* of the prefix before it
RECURSIVE LevenshteinRowFrom(_, _, _, _)
LevenshteinRowFrom(row, prev, c, t) ==
    IF Len(row) = Len(t) + 1 THEN row
    ELSE LevenshteinRowFrom(
             Append(row, Min3(prev[Len(row) + 1] + 1,
                              row[Len(row)] + 1,
                              prev[Len(row)] + (IF c = t[Len(row)] THEN 0 ELSE 1))),
             prev, c, t)

LevenshteinRow(prev, c, t) == LevenshteinRowFrom(<<prev[1] + 1>>, prev, c, t)

RECURSIVE LevenshteinRows(_, _, _)
LevenshteinRows(prev, s, t) ==
    IF s = <<>> THEN prev
    ELSE LevenshteinRows(LevenshteinRow(prev, Head(s), t), Tail(s), t)

\* fuzzy.LevenshteinDistance: the edit distance of two strings
LevenshteinDistance(s, t) ==
    LevenshteinRows([j \in 1..(Len(t) + 1) |-> j - 1], s, t)[Len(t) + 1]

\* a variant that only looks from a to b
isSingularPluralOneWay(a, b) ==
    \/ a \o <<"s">> = b
    \/ a \o <<"e", "s">> = b
    \/ /\ Len(a) > 2 /\ Len(b) > 2
       /\ HasSuffix(a, <<"y">>) /\ TrimSuffix(a, <<"y">>) \o <<"i", "e", "s">> = b

isSingularPlural(a, b) ==
    \/ a \o <<"s">> = b \/ b \o <<"s">> = a
    \/ a \o <<"e", "s">> = b \/ b \o <<"e", "s">> = a
    \/ /\ Len(a) > 2 /\ Len(b) > 2
       /\ \/ HasSuffix(a, <<"y">>) /\ TrimSuffix(a, <<"y">>) \o <<"i", "e", "s">> = b
          \/ HasSuffix(b, <<"y">>) /\ TrimSuffix(b, <<"y">>) \o <<"i", "e", "s">> = a

\* one direction of the -ing rule: a ends in "ing" and its base gives b
IngBaseOf(a, b) ==
    /\ HasSuffix(a, <<"i", "n", "g">>)
    /\ LET base == TrimSuffix(a, <<"i", "n", "g">>)
       IN  \/ Len(base) > 0 /\ base = b
           \/ Len(base) > 1 /\ SubSeq(base, 1, Len(base) - 1) = b

isVerbNounVariation(a, b) ==
    \/ IngBaseOf(a, b)
    \/ IngBaseOf(b, a)
    \/ HasSuffix(a, <<"e", "d">>) /\ TrimSuffix(a, <<"e", "d">>) = b
    \/ HasSuffix(b, <<"e", "d">>) /\ TrimSuffix(b, <<"e", "d">>) = a

commonSuffixes ==
    { <<"s">>, <<"e", "s">>, <<"i", "n", "g">>, <<"e", "d">>, <<"e", "r">>,
      <<"e", "r", "s">>, <<"t", "i", "o", "n">>, <<"s", "i", "o", "n">>,
      <<"m", "e", "n", "t">>, <<"n", "e", "s", "s">>, <<"i", "t", "y">>,
      <<"a", "g", "e">>, <<"a", "l">>, <<"a", "n", "c", "e">>,
      <<"e", "n", "c", "e">> }

isCommonSuffix(s) == s \in commonSuffixes

\* the comparison form of a tag: lower-cased, hyphens removed
Normalized(tag) == ToLower(RemoveHyphens(tag))

\* rule 1: the normalized forms are identical
ExactMatch(normalized, groupNorm) == normalized = groupNorm

\* a variant of rule 2 without the test of the tag's length
NearMatchAnyLength(normalized, groupNorm) ==
    /\ LevenshteinDistance(normalized, groupNorm) <= 2
    /\ LET lenDiff == abs(Len(normalized) - Len(groupNorm))
           maxLen  == maxInt(Len(normalized), Len(groupNorm))
       IN  5 * lenDiff <= maxLen

\* a variant of rule 2 that only compares the lengths
NearMatchByLength(normalized, groupNorm) ==
    /\ Len(normalized) > 3
    /\ LET lenDiff == abs(Len(normalized) - Len(groupNorm))
           maxLen  == maxInt(Len(normalized), Len(groupNorm))
       IN  5 * lenDiff <= maxLen

\* rule 2: edit distance <= 2 between strings of similar length;
\* float64(lenDiff)/float64(maxLen) <= 0.2 is 5*lenDiff <= maxLen for maxLen > 0
NearMatch(normalized, groupNorm) ==
    /\ Len(normalized) > 3
    /\ LevenshteinDistance(normalized, groupNorm) <= 2
    /\ LET lenDiff == abs(Len(normalized) - Len(groupNorm))
           maxLen  == maxInt(Len(normalized), Len(groupNorm))
       IN  5 * lenDiff <= maxLen

\* rule 5: the shorter is a prefix of the longer and the rest is a common suffix
PrefixMatch(normalized, groupNorm) ==
    /\ Len(normalized) > 3 /\ Len(groupNorm) > 3
    /\ LET shorter == IF Len(groupNorm) < Len(normalized) THEN groupNorm ELSE normalized
           longer  == IF Len(groupNorm) < Len(normalized) THEN normalized ELSE groupNorm
       IN  /\ Len(shorter) >= 4
           /\ HasPrefix(longer, shorter)
           /\ isCommonSuffix(TrimPrefix(longer, shorter))

\* the body of the inner loop: does the incoming tag match this group?
Matches(normalized, groupNorm) ==
    \/ ExactMatch(normalized, groupNorm)
    \/ NearMatch(normalized, groupNorm)
    \/ isSingularPlural(normalized, groupNorm)
    \/ isVerbNounVariation(normalized, groupNorm)
    \/ PrefixMatch(normalized, groupNorm)

-----------------------------------------------------------------------------
(* fuzzyPreProcess *)

\* the raw tags the inputs are drawn from
TagPool ==
    { <<"a">>, <<"a", "s">>, <<"a", "s", "s">>, <<"A", "-", "s">>,
      <<"c", "a", "r", "t">>, <<"c", "a", "s", "t">>,
      <<"c", "a", "s", "t", "e", "d">> }

tagInfo == [Tag : TagPool, Count : Counts]

\* sort.Slice(tagList, Count descending), as runNormalizePrompt leaves the list
SortedByCountDesc(list) ==
    \A i \in 1..(Len(list) - 1) : list[i].Count >= list[i + 1].Count

\* the tag lists runNormalizePrompt hands over: one entry per distinct raw
\* tag (the keys of tagCounts, of which there is at least one), sorted by
\* descending count
TagLists ==
    { l \in UNION { [1..n -> tagInfo] : n \in 1..MaxTags } :
        /\ \A i, j \in 1..Len(l) : i # j => l[i].Tag # l[j].Tag
        /\ SortedByCountDesc(l) }

\* m[k] = v on a Go map
MapPut(m, k, v) ==
    [x \in DOMAIN m \cup {k} |-> IF x = k THEN v ELSE m[x]]

EmptyMap == [x \in {} |-> <<>>]

\* the new group of a tag that matched no group
NewGroup(tag) == [canonical |-> tag.Tag, tags |-> <<tag>>, totalCount |-> tag.Count]

\* a mutation of JoinGroup: the count of the joining tag replaces the total
JoinGroupLosingCount(group, tag) ==
    [group EXCEPT !.tags = Append(@, tag), !.totalCount = tag.Count]

\* the matched group after the tag joined it
JoinGroup(group, tag) ==
    [group EXCEPT !.tags = Append(@, tag), !.totalCount = @ + tag.Count]

\* the groups whose canonical matches the tag by some rule; the loop over the
\* Go map stops at the first of them in an iteration order that is not fixed
MatchingGroups(gs, tag) ==
    { k \in DOMAIN gs : Matches(Normalized(tag.Tag), Normalized(gs[k].canonical)) }

\* one iteration of the loop over the input tags
FuzzyLoop ==
    /\ pc = "fuzzyLoop"
    /\ idx <= Len(tags)
    /\ LET tag == tags[idx]
       IN  IF MatchingGroups(groups, tag) # {}
           THEN \E k \in MatchingGroups(groups, tag) :
                    groups' = [groups EXCEPT ![k] = JoinGroup(@, tag)]
           ELSE groups' = MapPut(groups, tag.Tag, NewGroup(tag))
    /\ idx' = idx + 1
    /\ UNCHANGED <<pc, tags, consolidated, mappings, fileVars, loadVars, applyVars, syncVars, extractVars, callVars,
                   diskVars, poolVars>>

\* the orders of the map iteration alone, were the list not sorted
MapOrders(gs) ==
    { o \in [1..Cardinality(DOMAIN gs) -> DOMAIN gs] :
        \A i, j \in DOMAIN o : i # j => o[i] # o[j] }

\* the orders sort.Slice (not stable, after a map iteration) may leave
SortedOrders(gs) ==
    { o \in [1..Cardinality(DOMAIN gs) -> DOMAIN gs] :
        /\ \A i, j \in DOMAIN o : i # j => o[i] # o[j]
        /\ \A i \in 1..(Len(o) - 1) : gs[o[i]].totalCount >= gs[o[i + 1]].totalCount }

\* the members of a group other than its canonical tag
Originals(group) ==
    LET others == SelectSeq(group.tags, LAMBDA t : t.Tag # group.canonical)
    IN  [i \in 1..Len(others) |-> others[i].Tag]

\* the mapping entries: groups of several tags with a member to rewrite
BuildMappings(gs) ==
    LET keys == { k \in DOMAIN gs :
                    Len(gs[k].tags) > 1 /\ Len(Originals(gs[k])) > 0 }
    IN  [c \in { gs[k].canonical : k \in keys } |->
            Originals(gs[CHOOSE k \in keys : gs[k].canonical = c])]

\* after the loop: the consolidated list, sorted, and the mappings
FuzzyBuild ==
    /\ pc = "fuzzyLoop"
    /\ idx > Len(tags)
    /\ \E o \in SortedOrders(groups) :
           consolidated' = [i \in 1..Len(o) |->
               [Tag |-> groups[o[i]].canonical, Count |-> groups[o[i]].totalCount]]
    /\ mappings' = BuildMappings(groups)
    /\ pc' = "fuzzyDone"
    /\ UNCHANGED <<tags, idx, groups, fileVars, loadVars, applyVars, syncVars, extractVars, callVars,
                   diskVars, poolVars>>

-----------------------------------------------------------------------------
(* The artifact files and their loaders *)

\* A file is missing, or holds text that is no JSON, or a JSON object
\* (members: string -> list of strings), or a JSON array of objects (items),
\* each object a function from the keys it carries to their values.
MissingFile == [kind |-> "missing"]

InvalidJson == [kind |-> "invalid"]

JsonObject(members) == [kind |-> "object", members |-> members]

JsonArray(items) == [kind |-> "array", items |-> items]

\* json.MarshalIndent of a map[string][]string: a JSON object
MarshalMapping(m) == JsonObject(m)

\* json.Unmarshal into a slice of structs accepts a JSON array only
UnmarshalsIntoSlice(file) == file.kind = "array"

\* a struct field after json.Unmarshal: the key's value, or the zero value
Field(entry, key, zero) == IF key \in DOMAIN entry THEN entry[key] ELSE zero

CanonicalTagOf(entry) == Field(entry, "canonical_tag", <<>>)

OldTagsOf(entry) == Field(entry, "old_tags", <<>>)

\* a mutation of FilteredOldTags: the self-reference is kept
FilteredOldTagsKeepingSelf(entry) == OldTagsOf(entry)

\* the old tags of an entry without the canonical tag itself
FilteredOldTags(entry) ==
    SelectSeq(OldTagsOf(entry), LAMBDA oldTag : oldTag # CanonicalTagOf(entry))

\* the conversion loop of both loaders
RECURSIVE ConvertEntries(_, _)
ConvertEntries(items, m) ==
    IF items = <<>> THEN m
    ELSE LET entry == Head(items)
             next  == IF Len(FilteredOldTags(entry)) > 0
                      THEN MapPut(m, CanonicalTagOf(entry), FilteredOldTags(entry))
                      ELSE m
         IN  ConvertEntries(Tail(items), next)

NotLoaded == [err |-> "unset", Mappings |-> EmptyMap]

loadNormalizeResult(file) ==
    IF file.kind = "missing" THEN [err |-> "read", Mappings |-> EmptyMap]
    ELSE IF ~UnmarshalsIntoSlice(file) THEN [err |-> "parse", Mappings |-> EmptyMap]
    ELSE [err |-> "none", Mappings |-> ConvertEntries(file.items, EmptyMap)]

loadNormalizePremappings(file) ==
    IF file.kind = "missing" THEN [err |-> "none", Mappings |-> EmptyMap]
    ELSE IF ~UnmarshalsIntoSlice(file) THEN [err |-> "parse", Mappings |-> EmptyMap]
    ELSE [err |-> "none", Mappings |-> ConvertEntries(file.items, EmptyMap)]

-----------------------------------------------------------------------------
(* runNormalizePrompt from the tag list on, and the later load of its file *)

\* the pre-mappings are written to normalize-premappings.json
SavePremappings ==
    /\ pc = "fuzzyDone"
    /\ premapFile' = MarshalMapping(mappings)
    /\ pc' = "promptDone"
    /\ UNCHANGED <<fuzzyVars, resultFile, loadVars, applyVars, syncVars, extractVars, callVars,
                   diskVars, poolVars>>

\* the apply step reads normalize-premappings.json back
ReloadPremappings ==
    /\ pc = "promptDone"
    /\ premappings' = loadNormalizePremappings(premapFile)
    /\ pc' = "premappingsLoaded"
    /\ UNCHANGED <<fuzzyVars, fileVars, normalizeResult, tagMappings, applyVars, syncVars, extractVars, callVars,
                   diskVars, poolVars>>

FilesIdle == premapFile = MissingFile /\ resultFile = MissingFile

LoadIdle ==
    normalizeResult = NotLoaded /\ premappings = NotLoaded /\ tagMappings = {}

ApplyIdle == storedTags = <<>> /\ writtenTags = <<>>

FuzzyIdle ==
    /\ tags = <<>> /\ idx = 1 /\ groups = EmptyMap
    /\ consolidated = <<>> /\ mappings = EmptyMap

ExtractIdle == summaryFiles = <<>> /\ fileIdx = 1 /\ tagCounts = EmptyMap

CallIdle == args = <<>> /\ ret = <<>>

DiskIdle == disk = <<>>

PoolIdle ==
    /\ semaphore = 0
    /\ workers = [calling |-> 0, sent |-> 0, done |-> 0]
    /\ results = [inChannel |-> 0, received |-> 0]

SyncIdle ==
    /\ opts = [applyNormalization |-> FALSE, overwrite |-> FALSE,
               testMode |-> FALSE, limit |-> 0, updateFields |-> <<>>]
    /\ cache = [createdAt |-> EmptyMap, summaries |-> EmptyMap, mem |-> EmptyMap]
    /\ syncState = [mem |-> {}, file |-> {}]
    /\ vault = [summary |-> EmptyMap, transcript |-> EmptyMap, daily |-> EmptyMap]
    /\ run = [toSync |-> <<>>, daysLeft |-> {}, day |-> 0, queue |-> <<>>,
              marked |-> {}, result |-> "none",
              cancelled |-> FALSE, step |-> "summary", failed |-> FALSE]

PromptInit ==
    /\ pc = "fuzzyLoop"
    /\ tags \in TagLists
    /\ idx = 1
    /\ groups = EmptyMap
    /\ consolidated = <<>>
    /\ mappings = EmptyMap
    /\ FilesIdle /\ LoadIdle /\ ApplyIdle /\ SyncIdle
    /\ ExtractIdle /\ CallIdle
    /\ DiskIdle /\ PoolIdle

PromptNext == FuzzyLoop \/ FuzzyBuild \/ SavePremappings \/ ReloadPremappings

SpecPrompt == PromptInit /\ [][PromptNext]_vars

-----------------------------------------------------------------------------
(* runSyncInternal: loading and merging the mappings (sync.go 348-385) *)

\* a mutation of TagPut: the entry is added beside the key's earlier entry
TagPutKeepingEarlier(tm, oldTag, canonical) == tm \cup { <<oldTag, canonical>> }

\* the lookup old tag -> canonical tag is a set of <<old tag, canonical>>
\* entries; an assignment to a key of the Go map replaces the key's entry
TagPut(tm, oldTag, canonical) ==
    { e \in tm : e[1] # oldTag } \cup { <<oldTag, canonical>> }

\* for _, oldTag := range oldTags { tagMappings[oldTag] = canonical }
RECURSIVE OverlayEntry(_, _, _)
OverlayEntry(tm, canonical, oldTags) ==
    IF oldTags = <<>> THEN tm
    ELSE OverlayEntry(TagPut(tm, Head(oldTags), canonical), canonical, Tail(oldTags))

\* for canonical, oldTags := range m, the keys visited in the given order
RECURSIVE Overlay(_, _, _)
Overlay(tm, m, order) ==
    IF order = <<>> THEN tm
    ELSE Overlay(OverlayEntry(tm, Head(order), m[Head(order)]), m, Tail(order))

\* the orders in which a range over a Go map may visit the keys
KeyOrders(m) ==
    { o \in [1..Cardinality(DOMAIN m) -> DOMAIN m] :
        \A i, j \in DOMAIN o : i # j => o[i] # o[j] }

\* the merge: the LLM mappings are applied first, the premappings second
MergeOutcomes(llm, pre) ==
    { Overlay(Overlay({}, llm, o1), pre, o2) :
        o1 \in KeyOrders(llm), o2 \in KeyOrders(pre) }

\* the mappings are loaded and merged when --apply-normalization is set
LoadNormalization ==
    /\ pc = "loadMappings"
    /\ normalizeResult' = loadNormalizeResult(resultFile)
    /\ IF normalizeResult'.err # "none"
       THEN /\ tagMappings' = {}
            /\ UNCHANGED premappings
       ELSE /\ premappings' = loadNormalizePremappings(premapFile)
            /\ tagMappings' \in
                   MergeOutcomes(normalizeResult'.Mappings, premappings'.Mappings)
    /\ pc' = "mappingsLoaded"
    /\ UNCHANGED <<fuzzyVars, fileVars, applyVars, syncVars, extractVars, callVars,
                   diskVars, poolVars>>

-----------------------------------------------------------------------------
(* runSyncInternal: the tag list of an item (sync.go 529-552) *)

\* strings.Split(s, ",")
RECURSIVE Split(_)
Split(s) ==
    IF \A i \in 1..Len(s) : s[i] # ","
    THEN <<s>>
    ELSE LET i == CHOOSE k \in 1..Len(s) :
                      s[k] = "," /\ \A j \in 1..(k - 1) : s[j] # ","
         IN  <<SubSeq(s, 1, i - 1)>> \o Split(SubSeq(s, i + 1, Len(s)))

\* strings.TrimSpace
RECURSIVE TrimSpace(_)
TrimSpace(s) ==
    IF s = <<>> THEN s
    ELSE IF Head(s) = " " THEN TrimSpace(Tail(s))
    ELSE IF s[Len(s)] = " " THEN TrimSpace(SubSeq(s, 1, Len(s) - 1))
    ELSE s

\* tagMappings[tag], with the tag itself when the lookup has no entry
MappedTag(tm, tag) ==
    IF \E e \in tm : e[1] = tag
    THEN (CHOOSE e \in tm : e[1] = tag)[2]
    ELSE tag

\* a mutation of uniqueStrings: nothing is removed
uniqueStringsKeepingAll(slice) == slice

\* uniqueStrings: the first occurrence of every value, in order
uniqueStrings(slice) ==
    LET firsts == { i \in 1..Len(slice) : \A j \in 1..(i - 1) : slice[j] # slice[i] }
        F[i \in 0..Len(slice)] ==
            IF i = 0 THEN <<>>
            ELSE IF i \in firsts THEN Append(F[i - 1], slice[i]) ELSE F[i - 1]
    IN  F[Len(slice)]

\* sort.Strings: ascending in byte order
RECURSIVE SortStrings(_)
SortStrings(slice) ==
    IF slice = <<>> THEN <<>>
    ELSE LET m == CHOOSE i \in 1..Len(slice) :
                      \A j \in 1..Len(slice) : ~StrLess(slice[j], slice[i])
         IN  <<slice[m]>> \o
             SortStrings([k \in 1..(Len(slice) - 1) |->
                             IF k < m THEN slice[k] ELSE slice[k + 1]])

\* the trimmed and mapped segments of a stored tag string, before dedup
MappedSegments(stored, tm) ==
    LET segs == Split(stored)
    IN  [i \in 1..Len(segs) |-> MappedTag(tm, TrimSpace(segs[i]))]

\* the tag list of an item whose summary carries the stored tag string
ItemTags(stored, tm) ==
    IF stored = <<>> THEN <<>>
    ELSE SortStrings(uniqueStrings(MappedSegments(stored, tm)))

-----------------------------------------------------------------------------
(* The merge applied to bounded artifact files *)

\* most records of an artifact file
MaxRecords == 2

\* the tags the artifact files speak of
MergeTags == { <<"a">>, <<"b">>, <<"c">> }

\* the lists of at most n tags
TagListsUpTo(n) == UNION { [1..k -> MergeTags] : k \in 0..n }

\* JSON objects with both keys, and objects that lack one of them
FullEntries(lists) == [canonical_tag : MergeTags, old_tags : lists]

PartialEntries ==
    { [canonical_tag |-> c] : c \in MergeTags } \cup
    { [old_tags |-> <<t>>] : t \in MergeTags }

\* JSON arrays of at most n of the entries
ArraysOf(entries, n) ==
    { JsonArray(items) : items \in UNION { [1..k -> entries] : k \in 0..n } }

\* files that are no JSON array
NonArrayFiles ==
    { MissingFile, InvalidJson, JsonObject(<<"b">> :> << <<"a">> >>) }

\* normalize-result.json as the LLM or its human reviewer may leave it
ResultFiles ==
    ArraysOf(FullEntries(TagListsUpTo(2)) \cup PartialEntries, MaxRecords)
        \cup NonArrayFiles

\* smaller files of both kinds, for every pairing of the two
SmallResultFiles ==
    ArraysOf(FullEntries(TagListsUpTo(1) \ {<<>>}), MaxRecords) \cup NonArrayFiles

SmallPremapFiles ==
    ArraysOf(FullEntries(TagListsUpTo(1) \ {<<>>}), 1) \cup NonArrayFiles

MergeInit ==
    /\ pc = "loadMappings"
    /\ \/ resultFile \in ResultFiles /\ premapFile = MissingFile
       \/ resultFile \in SmallResultFiles /\ premapFile \in SmallPremapFiles
    /\ LoadIdle /\ FuzzyIdle /\ ApplyIdle /\ SyncIdle
    /\ ExtractIdle /\ CallIdle
    /\ DiskIdle /\ PoolIdle

MergeNext == LoadNormalization

SpecMerge == MergeInit /\ [][MergeNext]_vars

-----------------------------------------------------------------------------
(* The tag list of an item, applied to bounded tag strings *)

\* longest stored tag string
MaxStoredLen == 5

StoredAlphabet == { "a", "A", ",", " " }

StoredStrings == UNION { [1..n -> StoredAlphabet] : n \in 0..MaxStoredLen }

\* lookups the merge can produce over the tags of the stored strings
ApplyLookups ==
    { {},
      { << <<"A">>, <<"a">> >> },
      { << <<"a">>, <<"A">> >>, << <<"A", "a">>, <<"a">> >> },
      { << <<>>, <<"a">> >> } }

\* the tag list of one item is computed for its summary file
WriteItemTags ==
    /\ pc = "applyTags"
    /\ writtenTags' = ItemTags(storedTags, tagMappings)
    /\ pc' = "tagsWritten"
    /\ UNCHANGED <<storedTags, fuzzyVars, fileVars, loadVars, syncVars, extractVars, callVars,
                   diskVars, poolVars>>

ApplyInit ==
    /\ pc = "applyTags"
    /\ storedTags \in StoredStrings
    /\ writtenTags = <<>>
    /\ tagMappings \in ApplyLookups
    /\ normalizeResult = NotLoaded /\ premappings = NotLoaded
    /\ FilesIdle /\ FuzzyIdle /\ SyncIdle
    /\ ExtractIdle /\ CallIdle
    /\ DiskIdle /\ PoolIdle

ApplyNext == WriteItemTags

SpecApply == ApplyInit /\ [][ApplyNext]_vars

-----------------------------------------------------------------------------
(* The frontmatter of a summary file (sync.go 91-114) *)

\* the loop over fieldsToUpdate: for each field the first key of newData, in
\* the order of a map range, that equals it after lower-casing gives the
\* value stored under the field as it was typed
RECURSIVE UpdateFields(_, _, _)
UpdateFields(updated, newData, fields) ==
    IF fields = <<>> THEN { updated }
    ELSE LET field   == Head(fields)
             matches == { key \in DOMAIN newData : ToLower(key) = ToLower(field) }
         IN  IF matches = {}
             THEN UpdateFields(updated, newData, Tail(fields))
             ELSE UNION { UpdateFields(MapPut(updated, field, newData[key]),
                                       newData, Tail(fields)) : key \in matches }

\* updateFrontmatterFields: the maps it may return
updateFrontmatterFields(existingFrontmatter, newData, fieldsToUpdate) ==
    UpdateFields(existingFrontmatter, newData, fieldsToUpdate)

-----------------------------------------------------------------------------
(* runSyncInternal: selecting and writing the meetings (sync.go 387-686) *)
(* The runs modelled here pass no --update-fields.                       *)

\* the downloaded meetings (SyncState.SyncedMeetings)
Meetings == { "m1", "m2" }

\* Meeting.CreatedAt, and the local date it falls on
Times == 1..3

DayOf(t) == (t + 1) \div 2

Days == { DayOf(t) : t \in Times }

\* the frontmatter keys of a summary file and the template data keys
TagsKey == <<"t", "a", "g", "s">>

TimeKey == <<"t", "i", "m", "e">>

TagsDataKey == <<"T", "a", "g", "s">>

TimeDataKey == <<"T", "i", "m", "e">>

\* a file of the vault: absent, there before the run, written by the run, or
\* an existing file whose frontmatter the run updated
NoFile == [exists |-> FALSE, fm |-> EmptyMap, by |-> "none"]

EarlierFile(frontmatter) == [exists |-> TRUE, fm |-> frontmatter, by |-> "earlier"]

WrittenFile(frontmatter) == [exists |-> TRUE, fm |-> frontmatter, by |-> "run"]

UpdatedFile(frontmatter) == [exists |-> TRUE, fm |-> frontmatter, by |-> "updated"]

\* the sequences that hold each element of the set once
OrdersOf(S) ==
    { o \in [1..Cardinality(S) -> S] : \A i, j \in DOMAIN o : i # j => o[i] # o[j] }

\* sort.Slice by CreatedAt.Before: any order without a later meeting first
ByCreatedAt(S) ==
    { o \in OrdersOf(S) :
        \A i \in 1..(Len(o) - 1) : cache.createdAt[o[i]] <= cache.createdAt[o[i + 1]] }

FirstN(list, n) == SubSeq(list, 1, IF n < Len(list) THEN n ELSE Len(list))

\* SyncedMeetings of the state handed to runSyncInternal: every meeting is
\* downloaded; syncSingleMeeting hands over a state with its meeting alone
Downloaded == IF args = <<>> THEN Meetings ELSE { args.meetingID }

\* the meetings this run has to process
ShouldProcess(synced) ==
    { id \in Downloaded :
        \/ opts.testMode
        \/ opts.updateFields # <<>> /\ id \in synced
        \/ id \notin synced }

\* Cache.SummaryExists: in memory, or a file on disk
SummaryExists(id) == id \in DOMAIN cache.mem \/ cache.summaries[id].exists

\* a variant of the load that keeps the tags of a summary only in the vault
LoadSummariesDroppingTags(ids) ==
    [id \in DOMAIN cache.mem \cup { i \in ids : SummaryExists(i) } |-> <<>>]

\* Cache.LoadSummary for the meetings to process: the in-memory summaries
\* afterwards, those read from disk added
LoadSummaries(ids) ==
    [id \in DOMAIN cache.mem \cup { i \in ids : SummaryExists(i) } |->
        IF id \in DOMAIN cache.mem THEN cache.mem[id] ELSE cache.summaries[id].Tags]

\* overwrite clears the Obsidian sync state; the meetings to sync are loaded,
\* sorted oldest first, cut to one in test mode and to the limit, and grouped
\* by date; a cancelled context ends the step at the grouping
SyncSelect ==
    /\ pc = "mappingsLoaded"
    /\ LET synced == IF opts.overwrite /\ ~opts.testMode THEN {} ELSE syncState.mem
           limit  == IF opts.testMode THEN 1 ELSE opts.limit
       IN  /\ syncState' = [syncState EXCEPT !.mem = synced]
           /\ cache' = [cache EXCEPT !.mem = LoadSummaries(ShouldProcess(synced))]
           /\ IF ShouldProcess(synced) = {}
              THEN /\ run' = [run EXCEPT !.result = "ok"]
                   /\ pc' = "syncDone"
              ELSE IF run.cancelled
              THEN /\ run' = [run EXCEPT !.result = "cancelled"]
                   /\ pc' = "syncCancelled"
              ELSE /\ \E o \in ByCreatedAt(ShouldProcess(synced)) :
                          LET sorted == IF opts.testMode THEN FirstN(o, 1) ELSE o
                              taken  == IF limit > 0 THEN FirstN(sorted, limit) ELSE sorted
                          IN  run' = [run EXCEPT
                                  !.toSync = taken,
                                  !.daysLeft = { DayOf(cache.createdAt[id]) : id \in Range(taken) },
                                  !.result = "running"]
                   /\ pc' = "syncDays"
    /\ UNCHANGED <<opts, vault, fuzzyVars, fileVars, loadVars, applyVars, extractVars, callVars,
                   diskVars, poolVars>>

\* the loop over meetingsByDate takes up a day, in the order of a map range
SyncStartDay ==
    /\ pc = "syncDays"
    /\ run.day = 0
    /\ \E d \in run.daysLeft :
           \E q \in ByCreatedAt({ id \in Range(run.toSync) : DayOf(cache.createdAt[id]) = d }) :
               run' = [run EXCEPT !.day = d, !.daysLeft = @ \ {d}, !.queue = q]
    /\ UNCHANGED <<pc, opts, cache, syncState, vault, fuzzyVars, fileVars, loadVars, applyVars, extractVars, callVars,
                   diskVars, poolVars>>

\* the tag list written for a meeting, from the summary loaded for it
TagsFor(id) ==
    IF id \in DOMAIN cache.mem
    THEN ItemTags(cache.mem[id], tagMappings)
    ELSE <<>>

\* templateData, and the frontmatter the summary template renders from it
TemplateData(id) ==
    (TagsDataKey :> TagsFor(id)) @@ (TimeDataKey :> cache.createdAt[id])

RenderedFrontmatter(id) ==
    (TagsKey :> TagsFor(id)) @@ (TimeKey :> cache.createdAt[id])

\* the context is cancelled, whenever the user interrupts the program
Cancel ==
    /\ pc \in { "mappingsLoaded", "syncDays" }
    /\ ~run.cancelled
    /\ run' = [run EXCEPT !.cancelled = TRUE]
    /\ UNCHANGED <<pc, opts, cache, syncState, vault, fuzzyVars, fileVars, loadVars, applyVars, extractVars, callVars,
                   diskVars, poolVars>>

\* a variant in which the cancellation is seen at any point of the loop body
CancellationObservedAnywhere == run.cancelled

\* ctx.Err() is tested at the top of the loop over the meetings of a day
CancellationObserved == run.cancelled /\ run.step = "summary"

\* the step returns the cancellation error
SyncCancelled ==
    /\ pc = "syncDays"
    /\ run.day # 0
    /\ run.queue # <<>>
    /\ CancellationObserved
    /\ run' = [run EXCEPT !.result = "cancelled"]
    /\ pc' = "syncCancelled"
    /\ UNCHANGED <<opts, cache, syncState, vault, fuzzyVars, fileVars, loadVars, applyVars, extractVars, callVars,
                   diskVars, poolVars>>

\* a failed write or parse: a warning, and the loop continues with the next
\* meeting
ContinueAfterFailure ==
    run' = [run EXCEPT !.queue = Tail(@), !.step = "summary", !.failed = TRUE]

\* what the summary file of the meeting may become: with --update-fields an
\* existing file keeps its frontmatter but for the named fields; outside test
\* mode an existing file is left as it is; otherwise the file is rendered
SummaryWrites(id) ==
    IF opts.updateFields # <<>> /\ vault.summary[id].exists
    THEN { UpdatedFile(fm) :
             fm \in updateFrontmatterFields(vault.summary[id].fm, TemplateData(id),
                                            opts.updateFields) }
    ELSE IF ~opts.testMode /\ vault.summary[id].exists
    THEN { vault.summary[id] }
    ELSE { WrittenFile(RenderedFrontmatter(id)) }

\* top of the loop body and the summary file of the meeting
SyncWriteSummary ==
    /\ pc = "syncDays"
    /\ run.day # 0
    /\ run.queue # <<>>
    /\ run.step = "summary"
    /\ ~run.cancelled
    /\ LET id == Head(run.queue)
       IN  \/ /\ \E file \in SummaryWrites(id) :
                     vault' = [vault EXCEPT !.summary[id] = file]
              /\ run' = [run EXCEPT !.step = "transcript"]
           \/ /\ SummaryWrites(id) # { vault.summary[id] }
              /\ ContinueAfterFailure
              /\ UNCHANGED vault
    /\ UNCHANGED <<pc, opts, cache, syncState, fuzzyVars, fileVars, loadVars, applyVars, extractVars, callVars,
                   diskVars, poolVars>>

\* the transcript file of the meeting: written unless it exists, always
\* written in test mode
SyncWriteTranscript ==
    /\ pc = "syncDays"
    /\ run.step = "transcript"
    /\ LET id == Head(run.queue)
       IN  IF ~opts.testMode /\ vault.transcript[id].exists
           THEN /\ run' = [run EXCEPT !.step = "mark"]
                /\ UNCHANGED vault
           ELSE \/ /\ vault' = [vault EXCEPT !.transcript[id] = WrittenFile(EmptyMap)]
                   /\ run' = [run EXCEPT !.step = "mark"]
                \/ /\ ContinueAfterFailure
                   /\ UNCHANGED vault
    /\ UNCHANGED <<pc, opts, cache, syncState, fuzzyVars, fileVars, loadVars, applyVars, extractVars, callVars,
                   diskVars, poolVars>>

\* a variant that marks the meeting and saves the state in test mode as well
MarkSyncedInTestMode(id) ==
    syncState' = [mem |-> syncState.mem \cup {id},
                  file |-> syncState.mem \cup {id}]

\* the meeting is marked as synced and the state saved, outside test mode
MarkSynced(id) ==
    IF opts.testMode
    THEN UNCHANGED syncState
    ELSE syncState' = [mem |-> syncState.mem \cup {id},
                       file |-> syncState.mem \cup {id}]

\* end of the loop body: the mark, and on to the next meeting
SyncMark ==
    /\ pc = "syncDays"
    /\ run.step = "mark"
    /\ MarkSynced(Head(run.queue))
    /\ run' = [run EXCEPT !.queue = Tail(@), !.step = "summary",
                          !.marked = IF opts.testMode THEN @ ELSE @ \cup {Head(run.queue)}]
    /\ UNCHANGED <<pc, opts, cache, vault, fuzzyVars, fileVars, loadVars, applyVars, extractVars, callVars,
                   diskVars, poolVars>>

\* a daily note: whether it has the "## Meetings" header, and its Dataview
\* query, which is none, the one the template renders for the date, or
\* another one
NoNote == [exists |-> FALSE, header |-> FALSE, dataview |-> "none", by |-> "none"]

RenderedNote(writer) ==
    [exists |-> TRUE, header |-> TRUE, dataview |-> "rendered", by |-> writer]

\* updateDailyNoteDataview: the query of the note is replaced by the rendered
\* one; without a query the rendered one is inserted after the header, or
\* appended with a header, and the file is written back
updateDailyNoteDataview(note) ==
    [exists |-> TRUE,
     header |-> IF note.dataview = "none" THEN TRUE ELSE note.header,
     dataview |-> "rendered",
     by |-> "updated"]

\* after the meetings of the day: the daily note is updated or created
SyncDailyNote ==
    /\ pc = "syncDays"
    /\ run.day # 0
    /\ run.queue = <<>>
    /\ vault' = [vault EXCEPT !.daily[run.day] =
                     IF @.exists THEN updateDailyNoteDataview(@)
                     ELSE RenderedNote("created")]
    /\ run' = [run EXCEPT !.day = 0]
    /\ UNCHANGED <<pc, opts, cache, syncState, fuzzyVars, fileVars, loadVars, applyVars, extractVars, callVars,
                   diskVars, poolVars>>

\* every day is done: the step returns nil
SyncFinish ==
    /\ pc = "syncDays"
    /\ run.day = 0
    /\ run.daysLeft = {}
    /\ run' = [run EXCEPT !.result = "ok"]
    /\ pc' = "syncDone"
    /\ UNCHANGED <<opts, cache, syncState, vault, fuzzyVars, fileVars, loadVars, applyVars, extractVars, callVars,
                   diskVars, poolVars>>

\* the tag strings of the cached summaries
SummaryChoices ==
    { [exists |-> FALSE, Tags |-> <<>>],
      [exists |-> TRUE, Tags |-> <<"a">>],
      [exists |-> TRUE, Tags |-> <<"b", ",", " ", "a">>] }

\* the flags: test mode sets the limit to 1 and ignores overwrite
OptionChoices ==
    { o \in [applyNormalization : BOOLEAN, overwrite : BOOLEAN,
             testMode : BOOLEAN, limit : {0, 1}, updateFields : { <<>> }] :
        o.testMode => (o.limit = 1 /\ ~o.overwrite) }

\* the artifact files of a run with --apply-normalization
SyncResultFiles ==
    NonArrayFiles \cup
    { JsonArray(<<[canonical_tag |-> <<"b">>, old_tags |-> << <<"a">> >>]>>),
      JsonArray(<<[canonical_tag |-> <<"b">>]>>) }

SyncPremapFiles ==
    { MissingFile,
      JsonArray(<<[canonical_tag |-> <<"c">>, old_tags |-> << <<"b">> >>]>>) }

\* the frontmatter an earlier sync without normalization left for a meeting
EarlierFrontmatter(createdAt, summaries, id) ==
    (TagsKey :> (IF summaries[id].exists
                 THEN ItemTags(summaries[id].Tags, {}) ELSE <<>>))
        @@ (TimeKey :> createdAt[id])

\* the daily notes the user wrote in the vault: without the header and the
\* query, or with a query of their own
UserNoteChoices ==
    { [exists |-> TRUE, header |-> FALSE, dataview |-> "none", by |-> "user"],
      [exists |-> TRUE, header |-> TRUE, dataview |-> "other", by |-> "user"] }

\* the cache, the sync state and the vault a sync step starts from: the
\* summaries are in memory or only on disk, some meetings are marked as
\* synced, some have their files in the vault; userNotes are the daily notes
\* of days without a meeting file
SyncWorldWith(userNotes) ==
    /\ \E createdAt \in [Meetings -> Times], summaries \in [Meetings -> SummaryChoices],
          earlier \in SUBSET Meetings :
           /\ createdAt["m1"] = 1
           /\ \E mem \in { EmptyMap,
                          [id \in { i \in Meetings : summaries[i].exists } |->
                               summaries[id].Tags] } :
                  cache = [createdAt |-> createdAt, summaries |-> summaries, mem |-> mem]
           /\ vault = [summary |-> [id \in Meetings |->
                          IF id \in earlier
                          THEN EarlierFile(EarlierFrontmatter(createdAt, summaries, id))
                          ELSE NoFile],
                       transcript |-> [id \in Meetings |->
                          IF id \in earlier THEN EarlierFile(EmptyMap) ELSE NoFile],
                       daily |-> [d \in Days |->
                          IF \E id \in earlier : DayOf(createdAt[id]) = d
                          THEN RenderedNote("earlier")
                          ELSE IF d \in DOMAIN userNotes THEN userNotes[d]
                          ELSE NoNote]]
    /\ \E synced \in SUBSET Meetings : syncState = [mem |-> synced, file |-> synced]
    /\ run = [toSync |-> <<>>, daysLeft |-> {}, day |-> 0, queue |-> <<>>,
              marked |-> {}, result |-> "none",
              cancelled |-> FALSE, step |-> "summary", failed |-> FALSE]

\* a vault in which every daily note was written by an earlier sync
SyncWorld == SyncWorldWith(EmptyMap)

SyncInit ==
    /\ opts \in OptionChoices
    /\ pc = IF opts.applyNormalization THEN "loadMappings" ELSE "mappingsLoaded"
    /\ IF opts.applyNormalization
       THEN resultFile \in SyncResultFiles /\ premapFile \in SyncPremapFiles
       ELSE FilesIdle
    /\ LoadIdle /\ FuzzyIdle /\ ApplyIdle
    /\ ExtractIdle /\ CallIdle
    /\ DiskIdle /\ PoolIdle
    /\ SyncWorld

SyncNext ==
    \/ LoadNormalization
    \/ SyncSelect
    \/ SyncStartDay
    \/ SyncWriteSummary
    \/ SyncWriteTranscript
    \/ SyncMark
    \/ SyncDailyNote
    \/ SyncFinish

SpecSync == SyncInit /\ [][SyncNext]_vars

\* a sync step without normalization that the user may interrupt
CancelInit ==
    /\ opts \in { o \in OptionChoices : ~o.applyNormalization }
    /\ pc = "mappingsLoaded"
    /\ FilesIdle /\ LoadIdle /\ FuzzyIdle /\ ApplyIdle
    /\ ExtractIdle /\ CallIdle
    /\ DiskIdle /\ PoolIdle
    /\ SyncWorld

CancelNext ==
    \/ Cancel
    \/ SyncSelect
    \/ SyncStartDay
    \/ SyncCancelled
    \/ SyncWriteSummary
    \/ SyncWriteTranscript
    \/ SyncMark
    \/ SyncDailyNote
    \/ SyncFinish

SpecCancel == CancelInit /\ [][CancelNext]_vars

\* the field lists of --update-fields: tags in lower case, tags capitalized,
\* time and tags
UpdateFieldChoices == { <<TagsKey>>, <<TagsDataKey>>, <<TimeKey, TagsKey>> }

\* a sync step with --update-fields, without normalization
UpdateInit ==
    /\ \E o \in OptionChoices, fields \in UpdateFieldChoices :
           /\ ~o.applyNormalization
           /\ opts = [o EXCEPT !.updateFields = fields]
    /\ pc = "mappingsLoaded"
    /\ FilesIdle /\ LoadIdle /\ FuzzyIdle /\ ApplyIdle
    /\ ExtractIdle /\ CallIdle
    /\ DiskIdle /\ PoolIdle
    /\ SyncWorld

UpdateNext ==
    \/ SyncSelect
    \/ SyncStartDay
    \/ SyncWriteSummary
    \/ SyncWriteTranscript
    \/ SyncMark
    \/ SyncDailyNote
    \/ SyncFinish

SpecUpdate == UpdateInit /\ [][UpdateNext]_vars

-----------------------------------------------------------------------------
(* Properties of fuzzyPreProcess *)

RECURSIVE SumCounts(_)
SumCounts(list) ==
    IF list = <<>> THEN 0 ELSE Head(list).Count + SumCounts(Tail(list))

\* the groups that hold the input tag at position i
GroupsHolding(i) == { k \in DOMAIN groups : tags[i] \in Range(groups[k].tags) }

\* C1: when fuzzyPreProcess has returned, the counts of the reduced list add
\* up to the counts of the input list: no occurrence is lost or counted twice
C1_CountSumPreserved ==
    pc # "fuzzyLoop" => SumCounts(consolidated) = SumCounts(tags)

\* C1 witness: a run that returned several groups, one of them joined by a
\* second tag
C1_Witness ==
    /\ pc = "fuzzyDone"
    /\ Len(consolidated) >= 2
    /\ \E k \in DOMAIN groups : Len(groups[k].tags) >= 2

\* C2: when fuzzyPreProcess has returned, any two input tags with the same
\* normalized form are members of one and the same group
C2_SameNormalizedOneGroup ==
    pc # "fuzzyLoop" =>
        \A i, j \in 1..Len(tags) :
            Normalized(tags[i].Tag) = Normalized(tags[j].Tag)
                => GroupsHolding(i) = GroupsHolding(j)

\* C10: the mapping runNormalizePrompt saved to normalize-premappings.json is
\* the mapping the apply step holds after loadNormalizePremappings read it back
C10_PremappingsRoundTrip ==
    pc = "premappingsLoaded" => premappings.Mappings = mappings

-----------------------------------------------------------------------------
(* Properties of the loaders and of the merge *)

\* the old tags a canonical -> [old tags] mapping lists under some canonical
ListedUnder(m, oldTag) == { c \in DOMAIN m : oldTag \in Range(m[c]) }

OldTagsIn(m) == UNION { Range(m[c]) : c \in DOMAIN m }

\* the mappings were loaded and merged without a load error
Merged == pc = "mappingsLoaded" /\ normalizeResult.err = "none"

\* C3: when the premapping lists A under B and the LLM mapping lists B under
\* a third tag C (and does not list A itself), the merged lookup resolves A
\* to C
C3_ChainResolved ==
    Merged =>
        \A A \in OldTagsIn(premappings.Mappings) \ OldTagsIn(normalizeResult.Mappings) :
            \A B \in ListedUnder(premappings.Mappings, A) :
                \A C \in ListedUnder(normalizeResult.Mappings, B) \ {A} :
                    MappedTag(tagMappings, A) = C

\* C4: an old tag listed by the premapping and, under another canonical tag,
\* by the LLM mapping resolves to a canonical tag of the LLM mapping
C4_LlmWinsConflict ==
    Merged =>
        \A A \in OldTagsIn(premappings.Mappings) \cap OldTagsIn(normalizeResult.Mappings) :
            MappedTag(tagMappings, A) \in ListedUnder(normalizeResult.Mappings, A)

\* the merged lookup read as a mapping canonical -> set of old tags
MergedMapping ==
    [c \in { e[2] : e \in tagMappings } |-> { e[1] : e \in { x \in tagMappings : x[2] = c } }]

\* C5: every old tag of the premappings and of the parsed LLM result is in
\* the old-tag set of exactly one canonical tag of the merged mapping
C5_OneCanonicalPerOldTag ==
    Merged =>
        \A t \in OldTagsIn(premappings.Mappings) \cup OldTagsIn(normalizeResult.Mappings) :
            Cardinality({ c \in DOMAIN MergedMapping : t \in MergedMapping[c] }) = 1

\* C5 witness: the parsed LLM result lists one old tag under two canonical
\* tags, and the merge has run
C5_Witness ==
    /\ Merged
    /\ \E t \in OldTagsIn(normalizeResult.Mappings) :
           Cardinality(ListedUnder(normalizeResult.Mappings, t)) >= 2

\* the records of normalize-result.json as decoded
ResultEntries == IF resultFile.kind = "array" THEN resultFile.items ELSE <<>>

\* the positions of an entry's old tags that differ from its canonical tag
KeptPositions(entry) ==
    { k \in 1..Len(OldTagsOf(entry)) : OldTagsOf(entry)[k] # CanonicalTagOf(entry) }

\* C6: the mapping loadNormalizeResult returns has an entry for a canonical
\* tag if and only if a record of that canonical tag lists an old tag other
\* than the canonical tag itself; the entry's list is such a record's old tags
\* without the self-references, and is never empty
C6_SelfReferenceDropped ==
    Merged =>
        LET M == normalizeResult.Mappings
        IN  /\ \A c \in MergeTags \cup {<<>>} :
                   c \in DOMAIN M <=>
                       \E i \in 1..Len(ResultEntries) :
                           /\ CanonicalTagOf(ResultEntries[i]) = c
                           /\ KeptPositions(ResultEntries[i]) # {}
            /\ \A c \in DOMAIN M :
                   /\ M[c] # <<>>
                   /\ c \notin Range(M[c])
                   /\ \E i \in 1..Len(ResultEntries) :
                          /\ CanonicalTagOf(ResultEntries[i]) = c
                          /\ Range(M[c]) = Range(OldTagsOf(ResultEntries[i])) \ {c}
                          /\ Len(M[c]) = Cardinality(KeptPositions(ResultEntries[i]))

\* C6 witness: a record lists only its own canonical tag and the mapping has
\* no entry for it, while another record keeps an old tag after the filter
C6_Witness ==
    /\ Merged
    /\ \E i \in 1..Len(ResultEntries) :
           /\ OldTagsOf(ResultEntries[i]) = <<CanonicalTagOf(ResultEntries[i])>>
           /\ CanonicalTagOf(ResultEntries[i]) \notin DOMAIN normalizeResult.Mappings
    /\ \E i \in 1..Len(ResultEntries) :
           /\ Len(OldTagsOf(ResultEntries[i])) = 2
           /\ Cardinality(KeptPositions(ResultEntries[i])) = 1

\* C7: every old tag of every record that carries a canonical_tag, other than
\* a self-reference, is in the returned mapping under that canonical tag
C7_NoTagDropped ==
    Merged =>
        \A i \in { k \in 1..Len(ResultEntries) : "canonical_tag" \in DOMAIN ResultEntries[k] } :
            \A t \in Range(OldTagsOf(ResultEntries[i])) \ {CanonicalTagOf(ResultEntries[i])} :
                /\ CanonicalTagOf(ResultEntries[i]) \in DOMAIN normalizeResult.Mappings
                /\ t \in Range(normalizeResult.Mappings[CanonicalTagOf(ResultEntries[i])])

-----------------------------------------------------------------------------
(* Properties of the tag list of an item *)

\* the image of the trimmed segments of a stored tag string under the lookup
MappedImage(stored, tm) ==
    { MappedTag(tm, TrimSpace(seg)) : seg \in Range(Split(stored)) }

\* C8: the tag list written for an item with a stored tag string has no
\* duplicates, is sorted in byte order, and holds exactly the images of the
\* trimmed comma-separated segments under the lookup; an item without a tag
\* string gets no tags
C8_TagsMappedUniqueSorted ==
    pc = "tagsWritten" =>
        IF storedTags = <<>>
        THEN writtenTags = <<>>
        ELSE /\ \A i, j \in 1..Len(writtenTags) :
                    i # j => writtenTags[i] # writtenTags[j]
             /\ \A i \in 1..(Len(writtenTags) - 1) :
                    ~StrLess(writtenTags[i + 1], writtenTags[i])
             /\ Range(writtenTags) = MappedImage(storedTags, tagMappings)

\* C8 witness: a stored string whose segments needed trimming, one of them
\* replaced by the lookup, a duplicate removed and two tags left to sort
C8_Witness ==
    /\ pc = "tagsWritten"
    /\ Len(writtenTags) = 2
    /\ Len(Split(storedTags)) = 3
    /\ \E seg \in Range(Split(storedTags)) : TrimSpace(seg) # seg
    /\ \E seg \in Range(Split(storedTags)) :
           MappedTag(tagMappings, TrimSpace(seg)) # TrimSpace(seg)

-----------------------------------------------------------------------------
(* Properties of the sync step *)

\* normalize-result.json is there and is not a list of records that each
\* carry canonical_tag and old_tags
FailsStructuralValidation(file) ==
    \/ file.kind \in { "invalid", "object" }
    \/ /\ file.kind = "array"
       /\ \E i \in DOMAIN file.items :
              ~({ "canonical_tag", "old_tags" } \subseteq DOMAIN file.items[i])

\* the run has written a file of the vault
WroteToVault ==
    \/ \E id \in Meetings : vault.summary[id].by \in { "run", "updated" }
    \/ \E id \in Meetings : vault.transcript[id].by = "run"
    \/ \E d \in Days : vault.daily[d].by \in { "created", "updated" }

\* C9: a sync run with --apply-normalization whose normalize-result.json fails
\* structural validation writes no file to the vault and marks no meeting as
\* synced
C9_InvalidResultStopsRun ==
    (opts.applyNormalization /\ FailsStructuralValidation(resultFile)) =>
        (~WroteToVault /\ run.marked = {})

\* the run has written no file of the meeting and has not marked it
Untouched(id) ==
    /\ vault.summary[id].by \notin { "run", "updated" }
    /\ vault.transcript[id].by # "run"
    /\ id \notin run.marked

\* both files of the meeting are there and, outside test mode, the meeting
\* is marked as synced in memory and in the saved state
FullyProcessed(id) ==
    /\ vault.summary[id].exists
    /\ vault.transcript[id].exists
    /\ ~opts.testMode =>
           id \in run.marked /\ id \in syncState.mem /\ id \in syncState.file

\* C16: when the step has returned the cancellation error and no write
\* failed, every meeting is either untouched by this run or fully processed:
\* no meeting is left half-written
C16_CancelledBetweenItems ==
    (pc = "syncCancelled" /\ ~run.failed) =>
        \A id \in Meetings : Untouched(id) \/ FullyProcessed(id)

\* C16 witness: the step was cancelled after it had written and marked one
\* meeting and before it touched the other, which has no file yet
C16_Witness ==
    /\ pc = "syncCancelled"
    /\ ~run.failed
    /\ \E id \in Meetings :
           /\ vault.summary[id].by = "run"
           /\ vault.transcript[id].by = "run"
           /\ id \in run.marked
    /\ \E id \in Meetings : Untouched(id) /\ ~vault.summary[id].exists

\* C18: no step of a sync run changes a cached summary: the -summary.json
\* files stay as they are, a summary held in memory stays as it is, and a
\* summary that enters the memory is the one of its file
C18_CachedSummariesUnchanged ==
    [][ /\ cache'.summaries = cache.summaries
        /\ \A id \in DOMAIN cache.mem :
               id \in DOMAIN cache'.mem /\ cache'.mem[id] = cache.mem[id]
        /\ \A id \in DOMAIN cache'.mem \ DOMAIN cache.mem :
               cache'.mem[id] = cache.summaries[id].Tags ]_vars

\* C18 witness: a run with normalization has ended after it wrote a summary
\* file whose tags the lookup changed, for a summary held by the cache
C18_Witness ==
    /\ pc = "syncDone"
    /\ opts.applyNormalization
    /\ \E id \in DOMAIN cache.mem :
           /\ vault.summary[id].by = "run"
           /\ vault.summary[id].fm[TagsKey] # ItemTags(cache.mem[id], {})
           /\ cache.mem[id] = cache.summaries[id].Tags

\* C20: a sync step with --update-fields creates no summary file: a meeting
\* without a summary file in the vault is left without one
C20_UpdateFieldsCreatesNoFile ==
    opts.updateFields # <<>> =>
        \A id \in Meetings : vault.summary[id].by # "run"

\* the re-sync of the README: --apply-normalization --overwrite --limit 0
ResyncWithNormalization ==
    /\ opts.applyNormalization /\ opts.overwrite /\ ~opts.testMode
    /\ opts.limit = 0 /\ opts.updateFields = <<>>

\* C17: when a sync step with apply-normalization and overwrite (no test
\* mode, no update-fields, limit 0) has ended without a failed write, every
\* summary file of the vault carries the normalized tags of its meeting
C17_OverwriteRewritesSummaries ==
    (pc = "syncDone" /\ ResyncWithNormalization /\ ~run.failed) =>
        \A id \in Meetings :
            vault.summary[id].exists => vault.summary[id].fm[TagsKey] = TagsFor(id)

-----------------------------------------------------------------------------
(* isSingularPlural called on bounded strings (normalize.go 475-495) *)

\* longest of the words a call is made with, before a suffix is added
MaxWordLen == 3

PluralAlphabet == { "e", "i", "s", "y" }

WordsUpTo(n) == UNION { [1..k -> PluralAlphabet] : k \in 0..n }

\* the arguments tried: a short word a with a short word x, with a followed
\* by x, and with the stem of a followed by x
PluralArgs(a, x) ==
    { <<a, x>>, <<a, a \o x>>, <<a, TrimSuffix(a, <<"y">>) \o x>> }

CallIsSingularPlural ==
    /\ pc = "callPlural"
    /\ ret' = isSingularPlural(args[1], args[2])
    /\ pc' = "pluralReturned"
    /\ UNCHANGED <<args, fuzzyVars, fileVars, loadVars, applyVars, syncVars, extractVars,
                   diskVars, poolVars>>

PluralInit ==
    /\ pc = "callPlural"
    /\ \E a \in WordsUpTo(MaxWordLen), x \in WordsUpTo(MaxWordLen) :
           args \in PluralArgs(a, x)
    /\ ret = <<>>
    /\ FilesIdle /\ LoadIdle /\ FuzzyIdle /\ ApplyIdle /\ SyncIdle /\ ExtractIdle
    /\ DiskIdle /\ PoolIdle

PluralNext == CallIsSingularPlural

SpecPlural == PluralInit /\ [][PluralNext]_vars

\* one string is the other followed by "s" or "es"
PluralBySuffix(a, b) ==
    \/ b = a \o <<"s">> \/ b = a \o <<"e", "s">>
    \/ a = b \o <<"s">> \/ a = b \o <<"e", "s">>

\* C11: isSingularPlural(a, b) equals isSingularPlural(b, a), and it is true
\* whenever one string is the other followed by "s" or "es"
C11_SingularPluralSymmetric ==
    pc = "pluralReturned" =>
        /\ ret = isSingularPlural(args[2], args[1])
        /\ PluralBySuffix(args[1], args[2]) => ret = TRUE

\* C11 witness: a call that returned true for a first argument that is the
\* second followed by "es"
C11_Witness ==
    /\ pc = "pluralReturned"
    /\ ret = TRUE
    /\ args[2] # <<>>
    /\ args[1] = args[2] \o <<"e", "s">>

-----------------------------------------------------------------------------
(* Properties of the list fuzzyPreProcess returns *)

\* C12: the reduced tag list fuzzyPreProcess returned is sorted by descending
\* total count: no entry has a smaller Count than the entry after it
C12_ConsolidatedSortedByCount ==
    pc # "fuzzyLoop" =>
        \A i \in 1..(Len(consolidated) - 1) :
            consolidated[i].Count >= consolidated[i + 1].Count

\* C12 witness: a returned list whose first entry is a group that outgrew
\* the most frequent input tag
C12_Witness ==
    /\ pc = "fuzzyDone"
    /\ Len(consolidated) >= 2
    /\ consolidated[1].Count > consolidated[2].Count
    /\ consolidated[1].Count > tags[1].Count
    /\ consolidated[1].Tag # tags[1].Tag

-----------------------------------------------------------------------------
(* The walk from raw tags to written tags on one corpus: runNormalizePrompt, *)
(* the LLM result saved by the user, then a sync run that applies it        *)

ProductRoadmap ==
    <<"p", "r", "o", "d", "u", "c", "t", "-", "r", "o", "a", "d", "m", "a", "p">>

RoadmapPlanning ==
    <<"r", "o", "a", "d", "m", "a", "p", "-", "p", "l", "a", "n", "n", "i", "n", "g">>

PMSync == <<"P", "M", "-", "s", "y", "n", "c">>

ProductStrategy ==
    <<"p", "r", "o", "d", "u", "c", "t", "-", "s", "t", "r", "a", "t", "e", "g", "y">>

\* the tag list of the corpus, as runNormalizePrompt sorts it
ScenarioTags ==
    << [Tag |-> ProductRoadmap, Count |-> 12],
       [Tag |-> PMSync, Count |-> 5],
       [Tag |-> RoadmapPlanning, Count |-> 3] >>

\* normalize-result.json as the LLM answered
ScenarioResultFile ==
    JsonArray(<< [canonical_tag |-> ProductStrategy,
                  old_tags |-> <<ProductRoadmap, RoadmapPlanning>>] >>)

\* strings.Join
RECURSIVE Join(_, _)
Join(list, sep) ==
    IF list = <<>> THEN <<>>
    ELSE IF Len(list) = 1 THEN list[1]
    ELSE list[1] \o sep \o Join(Tail(list), sep)

\* the tag strings of the items: some of the three tags in some order,
\* separated by "," or by ", "
ScenarioStored ==
    { Join(o, sep) :
        o \in UNION { OrdersOf(S) : S \in (SUBSET { ProductRoadmap, RoadmapPlanning, PMSync }) \ {{}} },
        sep \in { <<",">>, <<",", " ">> } }

\* the user runs the LLM on the prompt and saves its answer
ScenarioSaveResult ==
    /\ pc = "promptDone"
    /\ resultFile' = ScenarioResultFile
    /\ pc' = "loadMappings"
    /\ UNCHANGED <<premapFile, fuzzyVars, loadVars, applyVars, syncVars, extractVars, callVars,
                   diskVars, poolVars>>

\* the sync run writes the tags of an item
ScenarioWriteItem ==
    /\ pc = "mappingsLoaded"
    /\ writtenTags' = ItemTags(storedTags, tagMappings)
    /\ pc' = "tagsWritten"
    /\ UNCHANGED <<storedTags, fuzzyVars, fileVars, loadVars, syncVars, extractVars, callVars,
                   diskVars, poolVars>>

ScenarioInit ==
    /\ pc = "fuzzyLoop"
    /\ tags = ScenarioTags
    /\ idx = 1
    /\ groups = EmptyMap
    /\ consolidated = <<>>
    /\ mappings = EmptyMap
    /\ storedTags \in ScenarioStored
    /\ writtenTags = <<>>
    /\ FilesIdle /\ LoadIdle /\ SyncIdle /\ ExtractIdle /\ CallIdle
    /\ DiskIdle /\ PoolIdle

ScenarioNext ==
    \/ FuzzyLoop
    \/ FuzzyBuild
    \/ SavePremappings
    \/ ScenarioSaveResult
    \/ LoadNormalization
    \/ ScenarioWriteItem

SpecScenario == ScenarioInit /\ [][ScenarioNext]_vars

\* C13: for the raw tags product-roadmap:12, roadmap-planning:3, PM-sync:5 the
\* fuzzy pass keeps three groups and emits no premapping; with the LLM mapping
\* product-strategy -> [product-roadmap, roadmap-planning] the lookup is
\* exactly {product-roadmap -> product-strategy, roadmap-planning ->
\* product-strategy}, and PM-sync is written unchanged
C13_EndToEndScenario ==
    tags = ScenarioTags =>
        /\ pc # "fuzzyLoop" =>
               /\ { consolidated[i].Tag : i \in 1..Len(consolidated) }
                      = { ProductRoadmap, RoadmapPlanning, PMSync }
               /\ Len(consolidated) = 3
               /\ mappings = EmptyMap
        /\ pc \in { "mappingsLoaded", "tagsWritten" } =>
               tagMappings = { <<ProductRoadmap, ProductStrategy>>,
                               <<RoadmapPlanning, ProductStrategy>> }
        /\ pc = "tagsWritten" =>
               /\ PMSync \in Range(writtenTags)
                      <=> PMSync \in { TrimSpace(seg) : seg \in Range(Split(storedTags)) }
               /\ Range(writtenTags) \subseteq { PMSync, ProductStrategy }

\* C13 witness: an item that carried PM-sync and a tag the LLM replaced has
\* been written
C13_Witness ==
    /\ pc = "tagsWritten"
    /\ tags = ScenarioTags
    /\ writtenTags = <<PMSync, ProductStrategy>>
    /\ Len(Split(storedTags)) = 3

-----------------------------------------------------------------------------
(* runNormalizePrompt: collecting the tag counts (normalize.go 31-101) *)

\* most summary files in the cache
MaxFiles == 3

\* SummaryData.Tags of the summaries
ExtractStrings ==
    { <<>>, <<"a">>, <<"a", ",", "a">>, <<"a", ",", " ", "b">>,
      <<"b", " ", ",", "a">>, <<",">>, <<"a", ",", ",", "b">>,
      <<"A", ",", "a">>, <<" ", "b", ",", "a", ",", " ", "b">> }

\* a *-summary.json file: one cache.LoadSummary fails on, or one it loads
SummaryFileChoices ==
    { [loadable |-> FALSE, Tags |-> <<>>] }
        \cup { [loadable |-> TRUE, Tags |-> str] : str \in ExtractStrings }

\* tagCounts[tag]++
Increment(counts, tag) ==
    IF tag \in DOMAIN counts
    THEN [counts EXCEPT ![tag] = @ + 1]
    ELSE MapPut(counts, tag, 1)

\* the loop over the segments of one tag string
RECURSIVE CountSegments(_, _)
CountSegments(segs, counts) ==
    IF segs = <<>> THEN counts
    ELSE CountSegments(Tail(segs),
             IF TrimSpace(Head(segs)) # <<>>
             THEN Increment(counts, TrimSpace(Head(segs)))
             ELSE counts)

\* a variant that forgets the counts when a summary does not load
AfterFileLosingCounts(file, counts) ==
    IF ~file.loadable THEN EmptyMap
    ELSE IF file.Tags # <<>> THEN CountSegments(Split(file.Tags), counts)
    ELSE counts

\* the body of the loop for one file: skipped if it does not load
AfterFile(file, counts) ==
    IF ~file.loadable THEN counts
    ELSE IF file.Tags # <<>> THEN CountSegments(Split(file.Tags), counts)
    ELSE counts

\* no summary file: the step returns nil
ExtractNoSummaries ==
    /\ pc = "extract"
    /\ summaryFiles = <<>>
    /\ pc' = "noSummaries"
    /\ UNCHANGED <<extractVars, fuzzyVars, fileVars, loadVars, applyVars, syncVars, callVars,
                   diskVars, poolVars>>

\* the context is found cancelled at the top of the loop
ExtractCancelled ==
    /\ pc = "extract"
    /\ fileIdx <= Len(summaryFiles)
    /\ pc' = "extractCancelled"
    /\ UNCHANGED <<extractVars, fuzzyVars, fileVars, loadVars, applyVars, syncVars, callVars,
                   diskVars, poolVars>>

\* one iteration of the loop over the files
ExtractFile ==
    /\ pc = "extract"
    /\ fileIdx <= Len(summaryFiles)
    /\ tagCounts' = AfterFile(summaryFiles[fileIdx], tagCounts)
    /\ fileIdx' = fileIdx + 1
    /\ UNCHANGED <<pc, summaryFiles, fuzzyVars, fileVars, loadVars, applyVars, syncVars, callVars,
                   diskVars, poolVars>>

\* the tag list in the orders sort.Slice may leave it, most frequent first
TagListsOf(counts) ==
    { [i \in 1..Len(o) |-> [Tag |-> o[i], Count |-> counts[o[i]]]] :
        o \in { q \in OrdersOf(DOMAIN counts) :
                  \A i \in 1..(Len(q) - 1) : counts[q[i]] >= counts[q[i + 1]] } }

\* after the loop: no tag at all, or the sorted list handed to fuzzyPreProcess
ExtractDone ==
    /\ pc = "extract"
    /\ summaryFiles # <<>>
    /\ fileIdx > Len(summaryFiles)
    /\ IF DOMAIN tagCounts = {}
       THEN pc' = "noTags" /\ UNCHANGED tags
       ELSE pc' = "fuzzyLoop" /\ tags' \in TagListsOf(tagCounts)
    /\ UNCHANGED <<idx, groups, consolidated, mappings, extractVars, fileVars, loadVars,
                   applyVars, syncVars, callVars,
                   diskVars, poolVars>>

ExtractInit ==
    /\ pc = "extract"
    /\ summaryFiles \in UNION { [1..n -> SummaryFileChoices] : n \in 0..MaxFiles }
    /\ fileIdx = 1
    /\ tagCounts = EmptyMap
    /\ FuzzyIdle /\ FilesIdle /\ LoadIdle /\ ApplyIdle /\ SyncIdle /\ CallIdle
    /\ DiskIdle /\ PoolIdle

ExtractNext ==
    \/ ExtractNoSummaries
    \/ ExtractCancelled
    \/ ExtractFile
    \/ ExtractDone

SpecExtract == ExtractInit /\ [][ExtractNext]_vars

\* the trimmed, non-empty segments of a tag string
SegmentsOf(str) == { TrimSpace(seg) : seg \in Range(Split(str)) } \ { <<>> }

\* the loadable summaries among the first n that carry the tag
ItemsCarrying(tag, n) ==
    { i \in 1..n : summaryFiles[i].loadable /\ tag \in SegmentsOf(summaryFiles[i].Tags) }

\* the extraction has run over every file
Extracted == pc \in { "fuzzyLoop", "noTags" }

\* C14: after extraction the count of each raw tag is the number of summaries
\* that carry it as a trimmed non-empty segment of their tag string, a summary
\* that lists it twice counting once
C14_CountIsNumberOfItems ==
    Extracted =>
        /\ DOMAIN tagCounts = { tag \in UNION { SegmentsOf(str) : str \in ExtractStrings } :
                                  ItemsCarrying(tag, Len(summaryFiles)) # {} }
        /\ \A tag \in DOMAIN tagCounts :
               tagCounts[tag] = Cardinality(ItemsCarrying(tag, Len(summaryFiles)))

\* the segments of the loadable summaries among the first n that are the tag
OccurrencesOf(tag, n) ==
    UNION { { <<i, j>> : j \in { k \in 1..Len(Split(summaryFiles[i].Tags)) :
                                   TrimSpace(Split(summaryFiles[i].Tags)[k]) = tag } } :
            i \in { m \in 1..n : summaryFiles[m].loadable } }

\* C15: a summary that cannot be loaded is skipped and extraction goes on:
\* after each file, and when the loop has ended, the counts are those of the
\* loadable summaries read so far, and only a cancellation ends the loop early
C15_UnloadableSkipped ==
    /\ pc \in { "extract", "extractCancelled", "noSummaries", "fuzzyLoop", "noTags" }
    /\ \A tag \in DOMAIN tagCounts :
           /\ tag # <<>>
           /\ tagCounts[tag] = Cardinality(OccurrencesOf(tag, fileIdx - 1))
    /\ \A tag \in UNION { SegmentsOf(str) : str \in ExtractStrings } :
           OccurrencesOf(tag, fileIdx - 1) # {} => tag \in DOMAIN tagCounts
    /\ Extracted => fileIdx = Len(summaryFiles) + 1

\* C15 witness: the extraction ended with counts although a summary before
\* the last one could not be loaded
C15_Witness ==
    /\ pc = "fuzzyLoop"
    /\ Len(summaryFiles) = 3
    /\ ~summaryFiles[2].loadable
    /\ summaryFiles[1].loadable /\ summaryFiles[3].loadable
    /\ \E tag \in DOMAIN tagCounts : tagCounts[tag] = 2

-----------------------------------------------------------------------------
(* updateFrontmatterFields called on bounded maps (sync.go 91-114) *)

\* longest fieldsToUpdate
MaxFields == 2

\* the field names: two names, each in lower and in upper case
FieldNames == { <<"a">>, <<"A">>, <<"t">>, <<"T">> }

\* a frontmatter with the given keys, its values told apart by their origin
MapOver(keys, origin) == [k \in keys |-> <<origin, k>>]

FieldLists ==
    UNION { { f \in [1..n -> FieldNames] : \A i, j \in 1..n : i # j => f[i] # f[j] } :
            n \in 0..MaxFields }

CallUpdateFrontmatterFields ==
    /\ pc = "callUpdateFields"
    /\ ret' \in updateFrontmatterFields(args.existingFrontmatter, args.newData,
                                        args.fieldsToUpdate)
    /\ pc' = "fieldsReturned"
    /\ UNCHANGED <<args, fuzzyVars, fileVars, loadVars, applyVars, syncVars, extractVars,
                   diskVars, poolVars>>

UpdateFieldsInit ==
    /\ pc = "callUpdateFields"
    /\ \E have \in SUBSET FieldNames, new \in SUBSET FieldNames, fields \in FieldLists :
           args = [existingFrontmatter |-> MapOver(have, "existing"),
                   newData |-> MapOver(new, "new"),
                   fieldsToUpdate |-> fields]
    /\ ret = <<>>
    /\ FilesIdle /\ LoadIdle /\ FuzzyIdle /\ ApplyIdle /\ SyncIdle /\ ExtractIdle
    /\ DiskIdle /\ PoolIdle

UpdateFieldsNext == CallUpdateFrontmatterFields

SpecUpdateFields == UpdateFieldsInit /\ [][UpdateFieldsNext]_vars

\* the key matches one of the names of fieldsToUpdate without regard to case
NamedField(key) ==
    \E i \in 1..Len(args.fieldsToUpdate) : ToLower(args.fieldsToUpdate[i]) = ToLower(key)

\* the values newData holds for the key, without regard to case
NewValuesFor(key) ==
    { args.newData[k] : k \in { n \in DOMAIN args.newData : ToLower(n) = ToLower(key) } }

\* C19: the frontmatter updateFrontmatterFields returns has the keys of the
\* existing frontmatter; a key that matches a name of fieldsToUpdate without
\* regard to case holds the new value, every other key its previous value
C19_OnlyNamedFieldsChange ==
    pc = "fieldsReturned" =>
        /\ DOMAIN ret = DOMAIN args.existingFrontmatter
        /\ \A key \in DOMAIN args.existingFrontmatter :
               IF NamedField(key) /\ NewValuesFor(key) # {}
               THEN ret[key] \in NewValuesFor(key)
               ELSE ret[key] = args.existingFrontmatter[key]

\* ---------------------------------------------------------------------
\* Test mode of the sync step

\* the meeting has the earliest CreatedAt of the downloaded meetings
EarliestDownloaded(id) ==
    \A other \in Meetings : cache.createdAt[id] <= cache.createdAt[other]

VaultInit ==
    /\ opts \in { o \in OptionChoices : ~o.applyNormalization /\ ~o.testMode }
    /\ pc = "mappingsLoaded"
    /\ FilesIdle /\ LoadIdle /\ FuzzyIdle /\ ApplyIdle
    /\ ExtractIdle /\ CallIdle
    /\ DiskIdle /\ PoolIdle
    /\ \E days \in SUBSET Days : \E userNotes \in [days -> UserNoteChoices] :
           SyncWorldWith(userNotes)

VaultNext ==
    \/ SyncSelect
    \/ SyncStartDay
    \/ SyncWriteSummary
    \/ SyncWriteTranscript
    \/ SyncMark
    \/ SyncDailyNote
    \/ SyncFinish

SpecVault == VaultInit /\ [][VaultNext]_vars

\* what a daily note holds
NoteContent(note) == <<note.header, note.dataview>>

\* C22: outside test mode no step of the sync changes the content of a
\* summary file, a transcript file or a daily note that exists
C22_ExistingFilesKept ==
    [][~opts.testMode =>
        /\ \A id \in Meetings :
               /\ vault.summary[id].exists =>
                      (vault'.summary[id].exists
                       /\ vault'.summary[id].fm = vault.summary[id].fm)
               /\ vault.transcript[id].exists =>
                      (vault'.transcript[id].exists
                       /\ vault'.transcript[id].fm = vault.transcript[id].fm)
        /\ \A d \in Days :
               vault.daily[d].exists =>
                   (vault'.daily[d].exists
                    /\ NoteContent(vault'.daily[d]) = NoteContent(vault.daily[d]))]_vars

\* ---------------------------------------------------------------------
\* SyncState.Save and loadSyncState over a process that may stop

\* what a file of the disk holds: nothing, an incomplete write, or the JSON
\* of a state
Absent == [kind |-> "absent"]

Partial == [kind |-> "partial"]

Marshalled(state) == [kind |-> "json", state |-> state]

\* a fresh state: the maps are empty
FreshState == {}

\* a variant of the write that opens the state file itself
OpenStateFile(d) == [d EXCEPT !.main = Partial]

\* os.WriteFile(tempPath, ...) creates or truncates the temp file
OpenTempFile(d) == [d EXCEPT !.temp = Partial]

\* os.Rename(tempPath, s.path)
RenameTemp(d) == [main |-> d.temp, temp |-> Absent]

\* the check for an orphaned temp file: it takes the place of a missing
\* state file, and is removed next to an existing one
RecoverTemp(d) ==
    IF d.temp.kind # "absent"
    THEN IF d.main.kind = "absent" THEN RenameTemp(d) ELSE [d EXCEPT !.temp = Absent]
    ELSE d

\* os.ReadFile and json.Unmarshal: a missing file and a file that does not
\* parse give a fresh state
ReadState(file) == IF file.kind = "json" THEN file.state ELSE FreshState

loadSyncState(d) == ReadState(RecoverTemp(d).main)

\* the positions of Save at which the process may stop
SavePositions == { "saveMarshal", "saveWriting", "saveRename", "saveRenamed" }

\* the program marks a meeting in the state it holds
StateMark ==
    /\ pc = "running"
    /\ \E id \in Meetings \ syncState.mem :
           syncState' = [syncState EXCEPT !.mem = @ \cup {id}]
    /\ UNCHANGED <<pc, disk, args, ret>>
    /\ UNCHANGED <<opts, cache, vault, run, fuzzyVars, fileVars, loadVars, applyVars,
                   extractVars, poolVars>>

\* Save is called: json.MarshalIndent of the state
SaveMarshal ==
    /\ pc = "running"
    /\ pc' = "saveMarshal"
    /\ args' = [data |-> syncState.mem, at |-> "none"]
    /\ UNCHANGED <<disk, ret>>
    /\ UNCHANGED <<syncVars, fuzzyVars, fileVars, loadVars, applyVars, extractVars, poolVars>>

\* os.WriteFile opens the temp file
SaveOpenTemp ==
    /\ pc = "saveMarshal"
    /\ pc' = "saveWriting"
    /\ disk' = OpenTempFile(disk)
    /\ UNCHANGED <<args, ret>>
    /\ UNCHANGED <<syncVars, fuzzyVars, fileVars, loadVars, applyVars, extractVars, poolVars>>

\* os.WriteFile writes the data, or fails and Save returns the error
SaveWriteTemp ==
    /\ pc = "saveWriting"
    /\ \/ /\ disk' = [disk EXCEPT !.temp = Marshalled(args.data)]
          /\ pc' = "saveRename"
       \/ /\ pc' = "running"
          /\ UNCHANGED disk
    /\ UNCHANGED <<args, ret>>
    /\ UNCHANGED <<syncVars, fuzzyVars, fileVars, loadVars, applyVars, extractVars, poolVars>>

\* the temp file is renamed to the state file: the Save is complete
SaveRename ==
    /\ pc = "saveRename"
    /\ pc' = "saveRenamed"
    /\ disk' = RenameTemp(disk)
    /\ syncState' = [syncState EXCEPT !.file = args.data]
    /\ UNCHANGED <<args, ret>>
    /\ UNCHANGED <<opts, cache, vault, run, fuzzyVars, fileVars, loadVars, applyVars,
                   extractVars, poolVars>>

\* Save returns nil
SaveReturn ==
    /\ pc = "saveRenamed"
    /\ pc' = "running"
    /\ UNCHANGED <<disk, args, ret>>
    /\ UNCHANGED <<syncVars, fuzzyVars, fileVars, loadVars, applyVars, extractVars, poolVars>>

\* the process stops, inside Save or outside: what it held in memory is lost
Stop ==
    /\ pc \in SavePositions \cup { "running" }
    /\ pc' = "stopped"
    /\ args' = [data |-> IF pc \in SavePositions THEN args.data ELSE syncState.file,
                 at |-> pc]
    /\ syncState' = [syncState EXCEPT !.mem = FreshState]
    /\ UNCHANGED <<disk, ret>>
    /\ UNCHANGED <<opts, cache, vault, run, fuzzyVars, fileVars, loadVars, applyVars,
                   extractVars, poolVars>>

\* the next start of the program: loadSyncState; a temp file that took the
\* place of the state file completes the Save that wrote it
StartAndLoad ==
    /\ pc = "stopped"
    /\ pc' = "running"
    /\ disk' = RecoverTemp(disk)
    /\ ret' = loadSyncState(disk)
    /\ syncState' = [mem |-> loadSyncState(disk),
                     file |-> IF disk'.main.kind = "json" THEN disk'.main.state
                              ELSE syncState.file]
    /\ UNCHANGED args
    /\ UNCHANGED <<opts, cache, vault, run, fuzzyVars, fileVars, loadVars, applyVars,
                   extractVars, poolVars>>

\* the program starts with the state file of an earlier completed Save, or
\* with none; syncState.file is the state of the last completed Save, the
\* fresh state before any
SaveInit ==
    /\ pc = "running"
    /\ \E main \in { Absent } \cup { Marshalled(s) : s \in SUBSET Meetings } :
           /\ disk = [main |-> main, temp |-> Absent]
           /\ syncState = [mem |-> ReadState(main),
                           file |-> ReadState(main)]
           /\ args = [data |-> ReadState(main), at |-> "none"]
    /\ ret = FreshState
    /\ opts = [applyNormalization |-> FALSE, overwrite |-> FALSE,
               testMode |-> FALSE, limit |-> 0, updateFields |-> <<>>]
    /\ cache = [createdAt |-> EmptyMap, summaries |-> EmptyMap, mem |-> EmptyMap]
    /\ vault = [summary |-> EmptyMap, transcript |-> EmptyMap, daily |-> EmptyMap]
    /\ run = [toSync |-> <<>>, daysLeft |-> {}, day |-> 0, queue |-> <<>>,
              marked |-> {}, result |-> "none",
              cancelled |-> FALSE, step |-> "summary", failed |-> FALSE]
    /\ FilesIdle /\ LoadIdle /\ FuzzyIdle /\ ApplyIdle /\ ExtractIdle /\ PoolIdle

SaveNext ==
    \/ StateMark
    \/ SaveMarshal
    \/ SaveOpenTemp
    \/ SaveWriteTemp
    \/ SaveRename
    \/ SaveReturn
    \/ Stop
    \/ StartAndLoad

SpecSave == SaveInit /\ [][SaveNext]_vars

\* C23: when the process stopped at a point of Save, the next loadSyncState
\* returns the state of the last completed Save (the fresh state if no Save
\* had completed) or the state that was being saved
C23_LoadAfterStopInSave ==
    [][(pc = "stopped" /\ args.at \in SavePositions /\ pc' = "running") =>
          \/ ret' = syncState.file
          \/ ret' = args.data]_vars

\* the process stopped while the temp file was being written over an
\* earlier state file, and the load after it has returned the earlier state
C23_Witness ==
    /\ pc = "running"
    /\ args.at = "saveWriting"
    /\ args.data # FreshState
    /\ syncState.file # FreshState
    /\ syncState.file # args.data
    /\ ret = syncState.file
    /\ disk.temp = Absent

\* ---------------------------------------------------------------------
\* runRepair over a cache directory

\* the meeting IDs of the cache directory and of the sync state
RepairIds == { <<"a">>, <<"b">> }

JsonSuffix == <<".", "j", "s", "o", "n">>

SummarySuffix == <<"-", "s", "u", "m", "m", "a", "r", "y">> \o JsonSuffix

\* the files a cache directory may hold: meetings, summaries, and a file
\* that is no JSON file
CacheFileNames ==
    { id \o JsonSuffix : id \in RepairIds }
        \cup { id \o SummarySuffix : id \in RepairIds }
        \cup { <<"a", ".", "t", "m", "p">> }

\* filepath.Glob(meetingsCacheDir/*.json)
GlobJson(files) == { f \in files : HasSuffix(f, JsonSuffix) }

\* the IDs of the summary files and of the meeting files among the names
actualSummaries(files) ==
    { TrimSuffix(f, SummarySuffix) : f \in { g \in files : HasSuffix(g, SummarySuffix) } }

actualMeetings(files) ==
    { TrimSuffix(f, JsonSuffix) : f \in { g \in files : ~HasSuffix(g, SummarySuffix) } }

\* the state runRepair leaves: the meetings found are added to
\* SyncedMeetings, SummarizedMeetings is rebuilt, ObsidianSyncedMeetings is
\* cleared
Repaired(state, files) ==
    [SyncedMeetings |-> state.SyncedMeetings \cup actualMeetings(GlobJson(files)),
     SummarizedMeetings |-> actualSummaries(GlobJson(files)),
     ObsidianSyncedMeetings |-> {}]

\* runRepair: the state is repaired and saved; a failing Save is returned
CallRunRepair ==
    /\ pc = "repair"
    /\ pc' = "repaired"
    /\ \E err \in BOOLEAN :
           ret' = [err |-> err, syncState |-> Repaired(args.syncState, args.files)]
    /\ UNCHANGED <<args, fuzzyVars, fileVars, loadVars, applyVars, syncVars, extractVars,
                   diskVars, poolVars>>

RepairInit ==
    /\ pc = "repair"
    /\ \E synced \in SUBSET RepairIds, summarized \in SUBSET RepairIds,
          obsidian \in SUBSET RepairIds, files \in SUBSET CacheFileNames :
           args = [syncState |-> [SyncedMeetings |-> synced,
                                  SummarizedMeetings |-> summarized,
                                  ObsidianSyncedMeetings |-> obsidian],
                   files |-> files]
    /\ ret = <<>>
    /\ FilesIdle /\ LoadIdle /\ FuzzyIdle /\ ApplyIdle /\ SyncIdle /\ ExtractIdle
    /\ DiskIdle /\ PoolIdle

RepairNext == CallRunRepair

SpecRepair == RepairInit /\ [][RepairNext]_vars

\* C24: after runRepair returned without error, SyncedMeetings is the set of
\* IDs with a meeting file in the cache directory, SummarizedMeetings the
\* set of IDs with a summary file, and ObsidianSyncedMeetings is empty
C24_StateMatchesFilesystem ==
    (pc = "repaired" /\ ~ret.err) =>
        /\ ret.syncState.SyncedMeetings =
               { id \in RepairIds : (id \o JsonSuffix) \in args.files }
        /\ ret.syncState.SummarizedMeetings =
               { id \in RepairIds : (id \o SummarySuffix) \in args.files }
        /\ ret.syncState.ObsidianSyncedMeetings = {}

\* ---------------------------------------------------------------------
\* Two runs of normalize-prompt over the same summaries

\* most distinct raw tags of the corpus
MaxRawTags == 3

\* the tagCounts the extraction yields for a corpus
TagCountChoices ==
    UNION { [S -> Counts] :
              S \in { T \in SUBSET TagPool : Cardinality(T) \in 1..MaxRawTags } }

\* the corpus is read again: the same tagCounts, listed in the order of a
\* map iteration and sorted by count; what the first run produced is kept in
\* ret for the comparison
RunPromptAgain ==
    /\ pc = "promptDone"
    /\ ret = <<>>
    /\ ret' = [consolidated |-> consolidated, premapFile |-> premapFile]
    /\ tags' \in TagListsOf(tagCounts)
    /\ idx' = 1
    /\ groups' = EmptyMap
    /\ consolidated' = <<>>
    /\ mappings' = EmptyMap
    /\ pc' = "fuzzyLoop"
    /\ UNCHANGED <<args, fileVars, loadVars, applyVars, syncVars, extractVars,
                   diskVars, poolVars>>

RerunInit ==
    /\ pc = "fuzzyLoop"
    /\ tagCounts \in TagCountChoices
    /\ summaryFiles = <<>>
    /\ fileIdx = 1
    /\ tags \in TagListsOf(tagCounts)
    /\ idx = 1
    /\ groups = EmptyMap
    /\ consolidated = <<>>
    /\ mappings = EmptyMap
    /\ FilesIdle /\ LoadIdle /\ ApplyIdle /\ SyncIdle /\ CallIdle
    /\ DiskIdle /\ PoolIdle

RerunNext == FuzzyLoop \/ FuzzyBuild \/ SavePremappings \/ RunPromptAgain

SpecRerun == RerunInit /\ [][RerunNext]_vars

\* C25: the second run of normalize-prompt over the same summaries leaves
\* the same reduced tags with the same counts and the same
\* normalize-premappings.json as the first
C25_PromptIdempotent ==
    (pc = "promptDone" /\ ret # <<>>) =>
        /\ Range(consolidated) = Range(ret.consolidated)
        /\ premapFile = ret.premapFile

\* ---------------------------------------------------------------------
\* The near-match rule on pairs of normalized strings

\* longest normalized string handed to the rule
MaxNormLen == 5

NormAlphabet == { "a", "b" }

NormStrings == UNION { [1..n -> NormAlphabet] : n \in 0..MaxNormLen }

\* the rule is evaluated for the normalized tag and the normalized canonical
\* of a group
CallNearMatch ==
    /\ pc = "nearMatch"
    /\ pc' = "nearMatchReturned"
    /\ ret' = NearMatch(args.normalized, args.groupNorm)
    /\ UNCHANGED <<args, fuzzyVars, fileVars, loadVars, applyVars, syncVars, extractVars,
                   diskVars, poolVars>>

NearInit ==
    /\ pc = "nearMatch"
    /\ \E n, g \in NormStrings : args = [normalized |-> n, groupNorm |-> g]
    /\ ret = <<>>
    /\ FilesIdle /\ LoadIdle /\ FuzzyIdle /\ ApplyIdle /\ SyncIdle /\ ExtractIdle
    /\ DiskIdle /\ PoolIdle

NearNext == CallNearMatch

SpecNear == NearInit /\ [][NearNext]_vars

\* the length difference is at most 20% of the length of the longer string
WithinTwentyPercent(s, u) ==
    IF Len(s) >= Len(u)
    THEN 100 * (Len(s) - Len(u)) <= 20 * Len(s)
    ELSE 100 * (Len(u) - Len(s)) <= 20 * Len(u)

\* C26: the near-match rule matches a tag and a group exactly when the edit
\* distance of the normalized strings is at most 2, both are longer than 3
\* characters, and their lengths differ by at most 20% of the longer one
C26_NearMatchConditions ==
    pc = "nearMatchReturned" =>
        (ret = TRUE <=>
            /\ LevenshteinDistance(args.normalized, args.groupNorm) <= 2
            /\ Len(args.normalized) > 3
            /\ Len(args.groupNorm) > 3
            /\ WithinTwentyPercent(args.normalized, args.groupNorm))

\* the rule has matched a tag of five letters and a group canonical of four
\* that differ in two places
C26_Witness ==
    /\ pc = "nearMatchReturned"
    /\ ret = TRUE
    /\ Len(args.normalized) = 5
    /\ Len(args.groupNorm) = 4
    /\ LevenshteinDistance(args.normalized, args.groupNorm) = 2

\* ---------------------------------------------------------------------
\* The worker pool of runSummarize

\* const maxConcurrency, the capacity of the semaphore channel
maxConcurrency == 10

\* most meetings with a transcript handed to the pool
MaxToProcess == 11

\* the goroutines started so far; they differ in nothing but their meeting,
\* so the pool keeps their numbers: those whose summarizeWithGemini call has
\* not returned, those that have sent their result, those that have returned
Started == workers.calling + workers.sent + workers.done

\* the goroutines that have not run their deferred release
Unfinished == workers.calling + workers.sent

\* a variant of the semaphore whose send never blocks
SlotAlwaysFree == TRUE

\* semaphore <- struct{}{} goes through while the channel is not full
SlotFree == semaphore < maxConcurrency

\* one iteration of the loop over meetingsToProcess: a cancelled context
\* ends the step; otherwise a slot is acquired and the goroutine started
PoolSpawn ==
    /\ pc = "spawn"
    /\ Started < args.toProcess
    /\ \/ /\ pc' = "summarizeCancelled"
          /\ UNCHANGED <<semaphore, workers>>
       \/ /\ SlotFree
          /\ semaphore' = semaphore + 1
          /\ workers' = [workers EXCEPT !.calling = @ + 1]
          /\ UNCHANGED pc
    /\ UNCHANGED <<results, args, ret>>
    /\ UNCHANGED <<fuzzyVars, fileVars, loadVars, applyVars, syncVars, extractVars, diskVars>>

\* every goroutine is started: the step goes on to receive the results
PoolSpawned ==
    /\ pc = "spawn"
    /\ Started = args.toProcess
    /\ pc' = "collect"
    /\ UNCHANGED <<poolVars, args, ret>>
    /\ UNCHANGED <<fuzzyVars, fileVars, loadVars, applyVars, syncVars, extractVars, diskVars>>

\* summarizeWithGemini returns in a goroutine, which sends its result; the
\* channel has room for every result
WorkerSend ==
    /\ workers.calling > 0
    /\ workers' = [workers EXCEPT !.calling = @ - 1, !.sent = @ + 1]
    /\ results' = [results EXCEPT !.inChannel = @ + 1]
    /\ UNCHANGED <<pc, semaphore, args, ret>>
    /\ UNCHANGED <<fuzzyVars, fileVars, loadVars, applyVars, syncVars, extractVars, diskVars>>

\* the goroutine returns: the deferred <-semaphore releases its slot
WorkerRelease ==
    /\ workers.sent > 0
    /\ workers' = [workers EXCEPT !.sent = @ - 1, !.done = @ + 1]
    /\ semaphore' = semaphore - 1
    /\ UNCHANGED <<pc, results, args, ret>>
    /\ UNCHANGED <<fuzzyVars, fileVars, loadVars, applyVars, syncVars, extractVars, diskVars>>

\* res := <-results, once for every meeting handed to the pool
PoolReceive ==
    /\ pc = "collect"
    /\ results.received < args.toProcess
    /\ results.inChannel > 0
    /\ results' = [inChannel |-> results.inChannel - 1, received |-> results.received + 1]
    /\ UNCHANGED <<pc, semaphore, workers, args, ret>>
    /\ UNCHANGED <<fuzzyVars, fileVars, loadVars, applyVars, syncVars, extractVars, diskVars>>

\* every result is received: runSummarize returns nil
PoolDone ==
    /\ pc = "collect"
    /\ results.received = args.toProcess
    /\ pc' = "summarized"
    /\ UNCHANGED <<poolVars, args, ret>>
    /\ UNCHANGED <<fuzzyVars, fileVars, loadVars, applyVars, syncVars, extractVars, diskVars>>

PoolInit ==
    /\ pc = "spawn"
    /\ \E n \in 1..MaxToProcess : args = [toProcess |-> n]
    /\ ret = <<>>
    /\ PoolIdle
    /\ FilesIdle /\ LoadIdle /\ FuzzyIdle /\ ApplyIdle /\ SyncIdle /\ ExtractIdle
    /\ DiskIdle

PoolNext ==
    \/ PoolSpawn
    \/ PoolSpawned
    \/ WorkerSend
    \/ WorkerRelease
    \/ PoolReceive
    \/ PoolDone

SpecPool == PoolInit /\ [][PoolNext]_vars

\* C27: at most maxConcurrency calls of summarizeWithGemini are in flight,
\* and the slots taken of the semaphore are those of the goroutines started
\* and not finished
C27_AtMostTenInFlight ==
    /\ workers.calling <= maxConcurrency
    /\ semaphore = Unfinished
    /\ semaphore <= maxConcurrency

\* the eleventh goroutine is started, after the first to finish has released
\* its slot, and ten calls are in flight
C27_Witness ==
    /\ Started = maxConcurrency + 1
    /\ workers.calling = maxConcurrency
    /\ workers.done = 1
    /\ semaphore = maxConcurrency

\* ---------------------------------------------------------------------
\* syncSingleMeeting

\* runSyncInternal has returned nil: the meeting is marked in the real sync
\* state, which is saved
SingleMark ==
    /\ pc = "syncDone"
    /\ pc' = "singleDone"
    /\ syncState' = [mem |-> syncState.mem \cup { args.meetingID },
                     file |-> syncState.mem \cup { args.meetingID }]
    /\ UNCHANGED <<opts, cache, vault, run, args, ret>>
    /\ UNCHANGED <<fuzzyVars, fileVars, loadVars, applyVars, extractVars, diskVars, poolVars>>

\* sync --meeting for one downloaded meeting: runSyncInternal is called with
\* limit 1 and test mode on a temporary state; in the real state the
\* meetings marked as synced have their files in the vault
SingleInit ==
    /\ opts = [applyNormalization |-> FALSE, overwrite |-> FALSE,
               testMode |-> TRUE, limit |-> 1, updateFields |-> <<>>]
    /\ pc = "mappingsLoaded"
    /\ \E id \in Meetings : args = [meetingID |-> id]
    /\ ret = <<>>
    /\ FilesIdle /\ LoadIdle /\ FuzzyIdle /\ ApplyIdle /\ ExtractIdle
    /\ DiskIdle /\ PoolIdle
    /\ SyncWorld
    /\ \A id \in syncState.mem :
           vault.summary[id].exists /\ vault.transcript[id].exists

SingleNext ==
    \/ SyncSelect
    \/ SyncStartDay
    \/ SyncWriteSummary
    \/ SyncWriteTranscript
    \/ SyncMark
    \/ SyncDailyNote
    \/ SyncFinish
    \/ SingleMark

SpecSingle == SingleInit /\ [][SingleNext]_vars

\* C28: a meeting is in ObsidianSyncedMeetings only if its summary file and
\* its transcript file exist in the vault
C28_MarkedOnlyWithFiles ==
    \A id \in syncState.mem :
        vault.summary[id].exists /\ vault.transcript[id].exists

====
